---------------------------- MODULE Spec2Model ----------------------------
(***************************************************************************)
(* State-machine model of the Luma3DS SVC interception layer               *)
(* (signalSvcEntry / svcHook / signalSvcReturn, UnmapProcessMemoryEx) and  *)
(* of the err:f fatal-error IPC service (ERRF_HandleCommands,              *)
(* errDispThreadMain).                                                     *)
(***************************************************************************)
EXTENDS Integers, Sequences, FiniteSets, TLC

VARIABLES
    currentProcess,       \* currentCoreContext->objectContext.currentProcess
    customFlags,          \* KProcess.customFlags, per process (set of flag names)
    debugged,             \* processes whose debugOfProcess() is not NULL
    threadList,           \* the global thread list, in list order
    criticalSectionLock,  \* recursion count of the KRecursiveLock
    plgStatus,            \* PLG_GetStatus()
    plgEvents,            \* plugin events that have been signalled
    memLayoutEvents,      \* processes whose onMemoryLayoutChangeEvent is signalled
    officialSVCs,         \* the table of original kernel handlers
    kernelVersion,        \* GET_VERSION_MINOR(kernelVersion)
    refCount,             \* KAutoObject reference count, per process
    handleTable,          \* handle table of the current process
    mapped,               \* pages mapped in each process
    svcPc,                \* where the SVC trap handler of the current core is
    pageEnd,              \* the stack frame of the SVC being handled
    errPc,                \* where errDispThreadMain is
    serverHandle,         \* errDispThreadMain's serverHandle, 0 before the port exists
    sessionHandle,        \* errDispThreadMain's sessionHandle
    replyTarget,          \* errDispThreadMain's replyTarget
    preTerminationRequested,
    pending,              \* the session has a request received and not yet replied to
    cmdbuf,               \* the thread's command buffer, words from index 0
    sbuf,                 \* the thread's static buffer descriptors, words from index 0
    staticBuf,            \* staticBuf[0x100 + 1], bytes from index 0
    userString,           \* userString[0x100 + 1], bytes from index 0
    menuRefCount,
    menuShouldExit,
    isHidInitialized,
    menuPc,               \* menuThreadMain's position in its loop
    frozen,               \* the state svcKernelSetState(0x10000, 2 | 1) toggles
    framebufferCache,     \* whether Draw_AllocateFramebufferCache's cache is held
    trace,                \* the calls made by the last handler, in program order
    ret                   \* what the handlers of the current call derived and returned

svcVars == <<currentProcess, customFlags, debugged, threadList, criticalSectionLock,
             plgStatus, plgEvents, memLayoutEvents, officialSVCs>>
unmapVars == <<kernelVersion, refCount, handleTable, mapped>>
trapVars == <<svcPc, pageEnd>>
serverVars == <<errPc, serverHandle, sessionHandle, replyTarget, preTerminationRequested,
                pending>>
bufVars == <<cmdbuf, sbuf, staticBuf, userString>>
menuVars == <<menuRefCount, menuShouldExit, isHidInitialized, menuPc, frozen,
              framebufferCache>>
errVars == <<serverVars, bufVars, menuVars>>
vars == <<svcVars, unmapVars, trapVars, errVars, trace, ret>>

----------------------------------------------------------------------------
(* Bounds of the model *)

\* number of processes
NumProcs == 2
\* largest number of threads on the global thread list
MaxThreads == 2

Procs == 1..NumProcs

----------------------------------------------------------------------------
(* Integers as the machine sees them *)

RECURSIVE AndBits(_, _, _)
\* a & b on the n low bits
AndBits(a, b, n) ==
    IF n = 0 THEN 0
    ELSE (IF a % 2 = 1 /\ b % 2 = 1 THEN 1 ELSE 0) + 2 * AndBits(a \div 2, b \div 2, n - 1)

\* a & ~b on 8 bits
AndNot8(a, b) == AndBits(a, 255 - b, 8)

\* A u32 is kept as the integer with the same 32 bits in two's complement, so
\* 0xFFFFFFFF is -1: the comparisons of unsigned values are these.
ULt(a, b) == IF (a < 0) = (b < 0) THEN a < b ELSE b < 0
ULe(a, b) == a = b \/ ULt(a, b)

\* w >> k of a u32
Shr(w, k) == (w \div (2 ^ k)) % (2 ^ (32 - k))

----------------------------------------------------------------------------
(* The SVC stack frame: bytes at fixed negative offsets from pageEnd *)

\* the byte offsets below pageEnd the model keeps: the SVC id byte and the
\* two saved-register slots around pageEnd - 0x110 + 8 * 4
FrameOffsets == {\HB5} \cup (\HED..\HF4)

ByteOf(w, k) == (w \div (256 ^ k)) % 256

\* a frame whose id byte is b, whose slot at pageEnd - 0x110 + 7 * 4 holds r11
\* and whose slot at pageEnd - 0x110 + 8 * 4 holds r12 (little endian)
MakeFrame(b, r11, r12) ==
    [off \in FrameOffsets |->
        IF off = \HB5 THEN b
        ELSE IF off > \HF0 THEN ByteOf(r11, \HF4 - off)
        ELSE ByteOf(r12, \HF0 - off)]

\* *(u8 *)(pageEnd - off)
ReadU8(base, off) == base[off]

\* *(u32 *)(pageEnd - off)
ReadU32(base, off) ==
    base[off] + 256 * base[off - 1] + 65536 * base[off - 2]
        + 16777216 * (IF base[off - 3] >= 128 THEN base[off - 3] - 256 ELSE base[off - 3])

\* values of the saved r12 slot that are tried with the escape byte 0xFE
\* (-1 is 0xFFFFFFFF, -2147483645 is 0x80000003)
R12Values == {\H00, \H01, \H03, \H3C, \H7D, \H7E, \H7F, \H80, \H90, \HA1, \HB3, \HB4,
              \HFE, \HFF, \H100, \H103, \H180, \H10003, \H3FFFFFFF, \H7FFFFFFF,
              -2147483645, -1}

\* value of the neighbouring saved-register slot
R11Value == \H2A

Frames ==
    {MakeFrame(b, R11Value, r) : b \in (0..255) \ {\HFE}, r \in {\H03, \H1B0}}
    \cup {MakeFrame(\HFE, R11Value, r) : r \in R12Values}

----------------------------------------------------------------------------
(* Handlers *)

NULL == [kind |-> "null", name |-> "NULL", idx |-> 0]
\* a replacement handler of this layer
Hook(n) == [kind |-> "hook", name |-> n, idx |-> 0]
\* the original handler of SVC i in kernel image img
Official(img, i) == [kind |-> "official", name |-> img, idx |-> i]

\* officialSVCs[0x7E]: one table per kernel image
KernelTables == {[i \in 0..\H7D |-> Official(img, i)] : img \in {"kernelA", "kernelB"}}

CustomFlagNames == {"SignalOnMemLayoutChanges", "SignalOnExit", "MemLayoutChanged"}

\* the u32 svcId derived by signalSvcEntry
signalSvcEntry_svcId(frame) ==
    LET svcId == ReadU8(frame, \HB5)
    IN  IF svcId = \HFE THEN ReadU32(frame, \H110 - 8 * 4) ELSE svcId

\* (mutant) the extended identifier read as a u16
signalSvcReturn_svcId_u16(frame) ==
    LET svcId == ReadU8(frame, \HB5)
    IN  IF svcId = \HFE THEN ReadU32(frame, \H110 - 8 * 4) % 65536 ELSE svcId

\* the u32 svcId derived by signalSvcReturn
signalSvcReturn_svcId(frame) ==
    LET svcId == ReadU8(frame, \HB5)
    IN  IF svcId = \HFE THEN ReadU32(frame, \H110 - 8 * 4) ELSE svcId

\* the u32 svcId derived by svcHook
svcHook_svcId(frame) ==
    LET svcId == ReadU8(frame, \HB5)
    IN  IF svcId = \HFE THEN ReadU32(frame, \H110 - 8 * 4) ELSE svcId

\* (mutant) the range check of the default branch off by one
svcHook_default_offByOne(svcId) ==
    IF ULt(svcId, \H7D) THEN officialSVCs[svcId] ELSE NULL

\* (mutant) the default branch without the range check, the index wrapped
svcHook_default_wrapped(svcId) == officialSVCs[svcId % \H7E]

\* (mutant) the default branch with the handlers of one kernel image
svcHook_default_oneKernel(svcId) ==
    IF ULe(svcId, \H7D) THEN Official("kernelA", svcId) ELSE NULL

\* the default branch of svcHook's switch
svcHook_default(svcId) ==
    IF ULe(svcId, \H7D) THEN officialSVCs[svcId] ELSE NULL

\* (mutant) case 0x3C testing for a debugger of any process
svcHook_break_anyDebugger ==
    IF debugged # {} THEN officialSVCs[\H3C] ELSE Hook("Break")

\* case 0x3C of svcHook's switch
svcHook_break ==
    IF currentProcess \in debugged THEN officialSVCs[\H3C] ELSE Hook("Break")

\* the handler svcHook returns for svcId
svcHook_handler(svcId) ==
    CASE svcId = \H01 -> Hook("ControlMemoryHookWrapper")
      [] svcId = \H03 -> officialSVCs[\H03]
      [] svcId = \H29 -> Hook("GetHandleInfoHookWrapper")
      [] svcId = \H2A -> Hook("GetSystemInfoHookWrapper")
      [] svcId = \H2B -> Hook("GetProcessInfoHookWrapper")
      [] svcId = \H2C -> Hook("GetThreadInfoHookWrapper")
      [] svcId = \H2D -> Hook("ConnectToPortHookWrapper")
      [] svcId = \H2E -> Hook("GetCFWInfo")
      [] svcId = \H32 -> Hook("SendSyncRequestHook")
      [] svcId = \H3C -> svcHook_break
      [] svcId = \H59 -> Hook("SetGpuProt")
      [] svcId = \H5A -> Hook("SetWifiEnabled")
      [] svcId = \H7B -> Hook("Backdoor")
      [] svcId = \H7C -> Hook("KernelSetStateHook")
      [] svcId = \H80 -> Hook("CustomBackdoor")
      [] svcId = \H90 -> Hook("convertVAToPA")
      [] svcId = \H91 -> Hook("flushDataCacheRange")
      [] svcId = \H92 -> Hook("flushEntireDataCache")
      [] svcId = \H93 -> Hook("invalidateInstructionCacheRange")
      [] svcId = \H94 -> Hook("invalidateEntireInstructionCache")
      [] svcId = \HA0 -> Hook("MapProcessMemoryExWrapper")
      [] svcId = \HA1 -> Hook("UnmapProcessMemoryEx")
      [] svcId = \HA2 -> Hook("ControlMemoryEx")
      [] svcId = \HA3 -> Hook("ControlMemoryUnsafeWrapper")
      [] svcId = \HB0 -> Hook("ControlService")
      [] svcId = \HB1 -> Hook("CopyHandleWrapper")
      [] svcId = \HB2 -> Hook("TranslateHandleWrapper")
      [] svcId = \HB3 -> Hook("ControlProcess")
      [] OTHER -> svcHook_default(svcId)

----------------------------------------------------------------------------
(* Events recorded in trace *)

Ev(op, tag, n) == [op |-> op, tag |-> tag, n |-> n]

\* the events of tr whose op is in ops, in order
RECURSIVE Only(_, _)
Only(tr, ops) ==
    IF tr = <<>> THEN <<>>
    ELSE IF Head(tr).op \in ops THEN <<Head(tr)>> \o Only(Tail(tr), ops)
    ELSE Only(Tail(tr), ops)

----------------------------------------------------------------------------
(* Threads *)

KThread(owner, mask) == [ownerProcess |-> owner, schedulingMask |-> mask]

\* scheduling masks tried: bit 0x20 ("held") with and without other bits
MaskValues == {\H00, \H20, \H21}

\* thread->schedulingMask & 0x20
Held(thread) == AndBits(thread.schedulingMask, \H20, 8) # 0

\* (mutant) the loop body without the test of the owner
svcHook_unlockThread_anyOwner(thread, proc) ==
    IF Held(thread)
    THEN [thread EXCEPT !.schedulingMask = AndNot8(thread.schedulingMask, \H20)]
    ELSE thread

\* (mutant) the held test as an equality with 0x20
svcHook_unlockThread_exactMask(thread, proc) ==
    IF thread.ownerProcess = proc /\ thread.schedulingMask = \H20
    THEN [thread EXCEPT !.schedulingMask = AndNot8(thread.schedulingMask, \H20)]
    ELSE thread

\* (mutant) case 0x03 without the SignalOnExit test
svcHook_signalOnExit_noFlag(svcId, flags) == svcId = \H03

\* case 0x03 of svcHook's switch with flags & SignalOnExit
svcHook_signalOnExit(svcId, flags) == svcId = \H03 /\ "SignalOnExit" \in flags

\* the body of svcHook's loop over the thread list, for one node
svcHook_unlockThread(thread, proc) ==
    IF thread.ownerProcess = proc /\ Held(thread)
    THEN [thread EXCEPT !.schedulingMask = AndNot8(thread.schedulingMask, \H20)]
    ELSE thread

\* svcHook's loop from first node to the list head: the list afterwards
svcHook_unlockThreads(list, proc) ==
    [i \in 1..Len(list) |-> svcHook_unlockThread(list[i], proc)]

\* the node reads and mask writes of that loop, in order, from node i on
RECURSIVE svcHook_loopTrace(_, _, _)
svcHook_loopTrace(list, proc, i) ==
    IF i > Len(list) THEN <<>>
    ELSE <<Ev("node", "read", i)>>
         \o (IF list[i].ownerProcess = proc /\ Held(list[i])
             THEN <<Ev("schedulingMask", "write", i)>> ELSE <<>>)
         \o svcHook_loopTrace(list, proc, i + 1)

\* (mutant) the lock released before the loop
svcHook_scan_unlocked(list, proc) ==
    <<Ev("KRecursiveLock__Lock", "criticalSectionLock", 0),
      Ev("KRecursiveLock__Unlock", "criticalSectionLock", 0)>>
    \o svcHook_loopTrace(list, proc, 1)

\* the block that unlocks the threads: its calls, reads and writes in order
svcHook_scan(list, proc) ==
    <<Ev("KRecursiveLock__Lock", "criticalSectionLock", 0)>>
    \o svcHook_loopTrace(list, proc, 1)
    \o <<Ev("KRecursiveLock__Unlock", "criticalSectionLock", 0)>>

\* (mutant) the plugin signalled whatever its status
svcHook_pluginRunning_always == TRUE

\* PLG_GetStatus() == PLG_CFG_RUNNING
svcHook_pluginRunning == plgStatus = "PLG_CFG_RUNNING"

KRecursiveLock__Lock(lock) == lock + 1
KRecursiveLock__Unlock(lock) == lock - 1

\* shouldSignalSyscallDebugEvent(process, svcId): the process's debug
\* configuration selects the identifier
shouldSignalSyscallDebugEvent(proc, svcId) ==
    ULt(svcId, \H80) /\ svcId % 2 = proc % 2

----------------------------------------------------------------------------
(* The SVC trap: entry hook, resolver, return hook *)

NoFrame == [off \in {} |-> 0]
NoCall == [fn |-> "none"]
NoId == \H200

\* the trap handler pushes the frame of a new SVC and enters the interceptor
SvcTrap(frame) ==
    /\ svcPc = "user"
    /\ svcPc' = "signalSvcEntry"
    /\ pageEnd' = frame
    /\ trace' = <<>>
    /\ ret' = [fn |-> "trap", entryId |-> NoId, hookId |-> NoId, returnId |-> NoId,
               handler |-> NULL]
    /\ UNCHANGED <<svcVars, unmapVars, errVars>>

\* (mutant) the condition of signalSvcEntry with a debugger on any process
signalSvcEntry_signals_anyDebugger(svcId) ==
    debugged # {} /\ shouldSignalSyscallDebugEvent(currentProcess, svcId)

\* debugOfProcess(currentProcess) != NULL
\*     && shouldSignalSyscallDebugEvent(currentProcess, svcId)
signalSvcEntry_signals(svcId) ==
    currentProcess \in debugged /\ shouldSignalSyscallDebugEvent(currentProcess, svcId)

signalSvcEntry ==
    LET svcId == signalSvcEntry_svcId(pageEnd)
    IN  /\ svcPc = "signalSvcEntry"
        /\ svcPc' = "svcHook"
        /\ trace' = IF signalSvcEntry_signals(svcId)
                    THEN <<Ev("SignalDebugEvent", "FFFFFFFE", svcId)>>
                    ELSE <<>>
        /\ ret' = [ret EXCEPT !.fn = "signalSvcEntry", !.entryId = svcId]
        /\ UNCHANGED <<svcVars, unmapVars, errVars, pageEnd>>

svcHook ==
    LET svcId == svcHook_svcId(pageEnd)
        flags == customFlags[currentProcess]
        exits == svcHook_signalOnExit(svcId, flags)
        plugin == exits /\ svcHook_pluginRunning
    IN  /\ svcPc = "svcHook"
        /\ svcPc' = "signalSvcReturn"
        /\ plgEvents' = IF plugin THEN plgEvents \cup {"PLG_CFG_EXIT_EVENT"} ELSE plgEvents
        /\ threadList' = IF exits THEN svcHook_unlockThreads(threadList, currentProcess)
                         ELSE threadList
        /\ criticalSectionLock' =
               IF exits
               THEN KRecursiveLock__Unlock(KRecursiveLock__Lock(criticalSectionLock))
               ELSE criticalSectionLock
        /\ trace' = IF exits
                    THEN (IF plugin THEN <<Ev("PLG_SignalEvent", "PLG_CFG_EXIT_EVENT", 0)>>
                          ELSE <<>>)
                         \o svcHook_scan(threadList, currentProcess)
                    ELSE <<>>
        /\ ret' = [ret EXCEPT !.fn = "svcHook", !.hookId = svcId,
                              !.handler = svcHook_handler(svcId)]
        /\ UNCHANGED <<currentProcess, customFlags, debugged, plgStatus,
                       memLayoutEvents, officialSVCs, unmapVars, errVars, pageEnd>>

\* (mutant) the test of signalSvcReturn with either flag
signalSvcReturn_layoutChanged_either(flags) ==
    "SignalOnMemLayoutChanges" \in flags \/ "MemLayoutChanged" \in flags

\* flags & SignalOnMemLayoutChanges && flags & MemLayoutChanged
signalSvcReturn_layoutChanged(flags) ==
    "SignalOnMemLayoutChanges" \in flags /\ "MemLayoutChanged" \in flags

signalSvcReturn ==
    LET svcId == signalSvcReturn_svcId(pageEnd)
        flags == customFlags[currentProcess]
        changed == signalSvcReturn_layoutChanged(flags)
    IN  /\ svcPc = "signalSvcReturn"
        /\ svcPc' = "returned"
        /\ customFlags' = IF changed
                          THEN [customFlags EXCEPT ![currentProcess] = flags \ {"MemLayoutChanged"}]
                          ELSE customFlags
        /\ memLayoutEvents' = IF changed THEN memLayoutEvents \cup {currentProcess}
                              ELSE memLayoutEvents
        /\ trace' = (IF currentProcess \in debugged
                        /\ shouldSignalSyscallDebugEvent(currentProcess, svcId)
                     THEN <<Ev("SignalDebugEvent", "FFFFFFFF", svcId)>>
                     ELSE <<>>)
                    \o (IF changed
                        THEN <<Ev("SignalEvent", "onMemoryLayoutChangeEvent", currentProcess)>>
                        ELSE <<>>)
        /\ ret' = [ret EXCEPT !.fn = "signalSvcReturn", !.returnId = svcId]
        /\ UNCHANGED <<currentProcess, debugged, threadList, criticalSectionLock,
                       plgStatus, plgEvents, officialSVCs, unmapVars, errVars, pageEnd>>

\* signalSvcReturn up to its read of the custom flags and its debug event:
\* the u32 flags it keeps is recorded in ret
signalSvcReturn_read ==
    LET svcId == signalSvcReturn_svcId(pageEnd)
    IN  /\ svcPc = "signalSvcReturn"
        /\ svcPc' = "signalSvcReturn_write"
        /\ trace' = IF currentProcess \in debugged
                       /\ shouldSignalSyscallDebugEvent(currentProcess, svcId)
                    THEN <<Ev("SignalDebugEvent", "FFFFFFFF", svcId)>>
                    ELSE <<>>
        /\ ret' = [fn |-> "signalSvcReturn", entryId |-> ret.entryId, hookId |-> ret.hookId,
                   returnId |-> svcId, handler |-> ret.handler,
                   flags |-> customFlags[currentProcess]]
        /\ UNCHANGED <<svcVars, unmapVars, errVars, pageEnd>>

\* signalSvcReturn from its test of the flags it read to its end
signalSvcReturn_write ==
    LET changed == signalSvcReturn_layoutChanged(ret.flags)
    IN  /\ svcPc = "signalSvcReturn_write"
        /\ svcPc' = "returned"
        /\ customFlags' = IF changed
                          THEN [customFlags EXCEPT
                                   ![currentProcess] = ret.flags \ {"MemLayoutChanged"}]
                          ELSE customFlags
        /\ memLayoutEvents' = IF changed THEN memLayoutEvents \cup {currentProcess}
                              ELSE memLayoutEvents
        /\ trace' = trace \o (IF changed
                              THEN <<Ev("SignalEvent", "onMemoryLayoutChangeEvent",
                                        currentProcess)>>
                              ELSE <<>>)
        /\ ret' = ret
        /\ UNCHANGED <<currentProcess, debugged, threadList, criticalSectionLock,
                       plgStatus, plgEvents, officialSVCs, unmapVars, errVars, pageEnd>>

\* another thread of the current process sets one of its custom flags, under
\* the recursive lock
OtherThread_setFlag(flag) ==
    /\ flag \notin customFlags[currentProcess]
    /\ customFlags' = [customFlags EXCEPT ![currentProcess] = @ \cup {flag}]
    /\ criticalSectionLock' =
           KRecursiveLock__Unlock(KRecursiveLock__Lock(criticalSectionLock))
    /\ UNCHANGED <<currentProcess, debugged, threadList, plgStatus, plgEvents,
                   memLayoutEvents, officialSVCs, unmapVars, errVars, trapVars, trace, ret>>

\* values of rosalinaState tried: bits 0 and 2 are the ones postprocessSvc
\* passes on, bit 1 is one it masks out
RosalinaStates == {0, 1, 2, 4, 5, 7}

\* (mutant) the original step left out after the thread was parked
postprocessSvc_official_unlessParked(parked) ==
    IF parked THEN <<>> ELSE <<Ev("officialPostProcessSvc", "call", 0)>>

\* the call of officialPostProcessSvc that ends postprocessSvc
postprocessSvc_official(parked) == <<Ev("officialPostProcessSvc", "call", 0)>>

\* (mutant) the condition without the test of shallTerminate
postprocessSvc_reschedules_anyThread(shallTerminate, locked) == locked

\* the condition of postprocessSvc: locked is what
\* rosalinaThreadLockPredicate returns for the thread and the mask
postprocessSvc_reschedules(shallTerminate, locked) == ~shallTerminate /\ locked

\* the calls of that condition, in order: the predicate is not called for a
\* thread marked for termination
postprocessSvc_condition(shallTerminate, rosalinaState) ==
    IF shallTerminate THEN <<>>
    ELSE <<Ev("rosalinaThreadLockPredicate", "mask", AndBits(rosalinaState, 5, 8))>>

\* postprocessSvc up to the return of rosalinaRescheduleThread, or to its end
\* when the thread is not rescheduled; the trap handler then pops the frame
postprocessSvc ==
    /\ svcPc = "returned"
    /\ \E shallTerminate \in BOOLEAN, rosalinaState \in RosalinaStates, locked \in BOOLEAN :
           LET parks == postprocessSvc_reschedules(shallTerminate, locked)
           IN  /\ ret' = [fn |-> "postprocessSvc", shallTerminate |-> shallTerminate,
                          rosalinaState |-> rosalinaState, locked |-> locked,
                          rescheduled |-> parks]
               /\ IF parks
                  THEN /\ trace' = postprocessSvc_condition(shallTerminate, rosalinaState)
                                   \o <<Ev("rosalinaRescheduleThread", "lock", 1)>>
                       /\ svcPc' = "rescheduled"
                       /\ pageEnd' = pageEnd
                  ELSE /\ trace' = postprocessSvc_condition(shallTerminate, rosalinaState)
                                   \o postprocessSvc_official(FALSE)
                       /\ svcPc' = "user"
                       /\ pageEnd' = NoFrame
    /\ UNCHANGED <<svcVars, unmapVars, errVars>>

\* postprocessSvc from the return of rosalinaRescheduleThread, once the thread
\* runs again
postprocessSvc_resumed ==
    /\ svcPc = "rescheduled"
    /\ svcPc' = "user"
    /\ pageEnd' = NoFrame
    /\ trace' = trace \o postprocessSvc_official(TRUE)
    /\ ret' = ret
    /\ UNCHANGED <<svcVars, unmapVars, errVars>>

\* the trap handler pops the frame and goes back to user mode
SvcExit ==
    /\ svcPc = "returned"
    /\ svcPc' = "user"
    /\ pageEnd' = NoFrame
    /\ trace' = <<>>
    /\ ret' = NoCall
    /\ UNCHANGED <<svcVars, unmapVars, errVars>>

----------------------------------------------------------------------------
(* UnmapProcessMemoryEx *)

\* 0xFFFF8001 as a u32
CUR_PROCESS_HANDLE == -32767
\* process == NULL
NoObject == 0
\* the handle values a handle table of the model has entries for
HandleValues == 1..3
\* the Result 0xD8E007F7
InvalidHandle == -656406537

\* addresses and byte sizes tried (0x4000000 is the legacy limit of 64MB,
\* -4096 is 0xFFFFF000)
DstValues == {\H100000, \H101000}
SizeValues == {\H1000, \H1800, \H2000, \H4000000, \H4001000, -4096}
Pages == {\H100, \H101, \H102}

\* results of the kernel's page-table unmap and of its legacy handler: success
\* and a failure
HwInfoResults == {0, -522183691}
LegacyResults == {0, -522183691}

UnmapArgs(processHandle, dst, size) ==
    [processHandle |-> processHandle, dst |-> dst, size |-> size]

\* the pages of set left after count pages from address dst on are unmapped
UnmapPages(set, dst, count) ==
    {pg \in set : ~(Shr(dst, 12) <= pg /\ pg - Shr(dst, 12) < count)}

\* the kernel's UnmapProcessMemory(processHandle, dst, size) returning res:
\* what it leaves mapped
UnmapProcessMemory_mapped(processHandle, dst, size, res) ==
    IF res = 0
    THEN [mapped EXCEPT ![currentProcess] = UnmapPages(@, dst, Shr(size, 12))]
    ELSE mapped

\* KProcessHandleTable__ToKProcess(handleTable, processHandle): the process
\* or NULL
KProcessHandleTable__ToKProcess(table, processHandle) ==
    IF processHandle \in DOMAIN table THEN table[processHandle] ELSE NoObject

\* (mutant) the gate one version too low
UnmapProcessMemoryEx_legacy_below36 == kernelVersion < 36

\* GET_VERSION_MINOR(kernelVersion) < 37
UnmapProcessMemoryEx_legacy == kernelVersion < 37

\* (mutant) a failed resolution falls back to the current process
UnmapProcessMemoryEx_process_fallback(processHandle) ==
    IF processHandle = CUR_PROCESS_HANDLE
       \/ KProcessHandleTable__ToKProcess(handleTable[currentProcess], processHandle) = NoObject
    THEN currentProcess
    ELSE KProcessHandleTable__ToKProcess(handleTable[currentProcess], processHandle)

\* the process the handle resolves to
UnmapProcessMemoryEx_process(processHandle) ==
    IF processHandle = CUR_PROCESS_HANDLE
    THEN currentProcess
    ELSE KProcessHandleTable__ToKProcess(handleTable[currentProcess], processHandle)

\* the reference taken by the resolution: KAutoObject__AddReference for the
\* current process, the reference ToKProcess returns its object with otherwise
UnmapProcessMemoryEx_acquire(rc, process) == [rc EXCEPT ![process] = @ + 1]

\* (mutant) the reference kept when the unmap failed
UnmapProcessMemoryEx_release_onSuccess(rc, process, res) ==
    IF res = 0 THEN [rc EXCEPT ![process] = @ - 1] ELSE rc

\* process->vtable->DecrementReferenceCount(process)
UnmapProcessMemoryEx_release(rc, process, res) == [rc EXCEPT ![process] = @ - 1]

\* (mutant) the cache maintenance skipped when the unmap failed
UnmapProcessMemoryEx_caches_onSuccess(res) ==
    IF res = 0
    THEN <<Ev("invalidateEntireInstructionCache", "", 0), Ev("flushEntireDataCache", "", 0)>>
    ELSE <<>>

\* invalidateEntireInstructionCache(); flushEntireDataCache();
UnmapProcessMemoryEx_caches(res) ==
    <<Ev("invalidateEntireInstructionCache", "", 0), Ev("flushEntireDataCache", "", 0)>>

\* the calls of the handler past the version gate, in program order, when the
\* handle resolves to process and the page-table unmap returns res
UnmapProcessMemoryEx_calls(processHandle, process, size, res) ==
    <<IF processHandle = CUR_PROCESS_HANDLE
      THEN Ev("KAutoObject__AddReference", "process", process)
      ELSE Ev("KProcessHandleTable__ToKProcess", "process", process)>>
    \o <<Ev("KProcessHwInfo__UnmapProcessMemory", "pages", Shr(size, 12))>>
    \o <<Ev("DecrementReferenceCount", "process", process)>>
    \o UnmapProcessMemoryEx_caches(res)

\* the kernel's handler of SVC 0x72, called directly
UnmapProcessMemory(processHandle, dst, size) ==
    /\ svcPc = "user"
    /\ svcPc' = "returned"
    /\ \E res \in LegacyResults :
           /\ mapped' = UnmapProcessMemory_mapped(processHandle, dst, size, res)
           /\ ret' = [fn |-> "UnmapProcessMemory",
                      args |-> UnmapArgs(processHandle, dst, size), res |-> res]
    /\ trace' = <<Ev("UnmapProcessMemory", "size", size)>>
    /\ UNCHANGED <<svcVars, kernelVersion, refCount, handleTable, errVars, pageEnd>>

UnmapProcessMemoryEx(processHandle, dst, size) ==
    LET process == UnmapProcessMemoryEx_process(processHandle)
        call(res) == [fn |-> "UnmapProcessMemoryEx",
                      args |-> UnmapArgs(processHandle, dst, size), res |-> res]
    IN  /\ svcPc = "user"
        /\ svcPc' = "returned"
        /\ IF UnmapProcessMemoryEx_legacy
           THEN \E res \in LegacyResults :
                    /\ mapped' = UnmapProcessMemory_mapped(processHandle, dst, size, res)
                    /\ refCount' = refCount
                    /\ trace' = <<Ev("UnmapProcessMemory", "size", size)>>
                    /\ ret' = call(res)
           ELSE IF process = NoObject
           THEN /\ UNCHANGED <<mapped, refCount>>
                /\ trace' = <<Ev("KProcessHandleTable__ToKProcess", "process", NoObject)>>
                /\ ret' = call(InvalidHandle)
           ELSE \E res \in HwInfoResults :
                    /\ mapped' = IF res = 0
                                 THEN [mapped EXCEPT
                                          ![process] = UnmapPages(@, dst, Shr(size, 12))]
                                 ELSE mapped
                    /\ refCount' = UnmapProcessMemoryEx_release(
                                       UnmapProcessMemoryEx_acquire(refCount, process),
                                       process, res)
                    /\ trace' = UnmapProcessMemoryEx_calls(processHandle, process, size, res)
                    /\ ret' = call(res)
        /\ UNCHANGED <<svcVars, kernelVersion, handleTable, errVars, pageEnd>>

----------------------------------------------------------------------------
(* The err:f service: buffers *)

MaxMenuUnderflow == 1

\* a buffer is the sequence of its cells from index 0 up to the last cell that
\* is not zero; the cells after it hold zero (static storage starts zeroed)
At(buf, i) == IF i < Len(buf) THEN buf[i + 1] ELSE 0

RECURSIVE Trim(_)
Trim(buf) ==
    IF buf # <<>> /\ buf[Len(buf)] = 0
    THEN Trim(SubSeq(buf, 1, Len(buf) - 1))
    ELSE buf

Longest(a, b) == IF a > b THEN a ELSE b

\* buf[i] = v
Store(buf, i, v) ==
    Trim([k \in 1..Longest(Len(buf), i + 1) |->
             IF k = i + 1 THEN v ELSE At(buf, k - 1)])

\* memcpy(buf, src, Len(src))
memcpy(buf, src) ==
    Trim([k \in 1..Longest(Len(buf), Len(src)) |->
             IF k <= Len(src) THEN src[k] ELSE buf[k]])

\* the n bytes of thread-local storage that start `from` bytes into the
\* command buffer: its 0x100 bytes are followed by the static buffer
\* descriptors
TlsBytes(from, n) ==
    [k \in 1..n |->
        LET off == from + k - 1
        IN  IF off < \H100
            THEN ByteOf(At(cmdbuf, off \div 4), off % 4)
            ELSE ByteOf(At(sbuf, (off - \H100) \div 4), off % 4)]

IPC_MakeHeader(cmd, normal, translate) ==
    cmd * 65536 + (normal % 64) * 64 + (translate % 64)

IPC_Desc_StaticBuffer(size, idx) == size * 16384 + (idx % 16) * 1024 + 2

StaticBufAddr == \H0014A2C8
SessionClosedByRemote == -920643558
InvalidCommand == -654305232
NoReplyHeader == -65536
ERRF_ERRTYPE_LOGGED == 5
ERRF_ERRTYPE_FAILURE == 4
ERRF_ERRTYPE_EXCEPTION == 3
ERRF_ERRTYPE_CARD_REMOVED == 2
ERRF_ERRTYPE_MEM_CORRUPT == 1
ERRF_EXCEPTION_PREFETCH_ABORT == 0
ERRF_EXCEPTION_DATA_ABORT == 1
ERRF_EXCEPTION_VFP == 3

----------------------------------------------------------------------------
(* The err:f service: requests as the kernel delivers them *)

LenValues == {0, 5, \H100, 300}
PatValues == {\H41}
SessionValues == {\H10, \H11}
PortHandle == \H20

\* a caller's string of len bytes, none of them zero
CallerString(pat, len) == [k \in 1..len |-> pat + ((k - 1) % 26)]

Smallest(a, b) == IF a < b THEN a ELSE b

\* a caller's failure message of 0x60 bytes whose only NUL is at offset len
\* (none when len is 0x60)
MesgLens == {0, 1, \H5E, \H5F, \H60}
FailureMessage(len) ==
    [k \in 1..\H60 |-> IF k - 1 = len THEN 0 ELSE \H41 + ((k - 1) % 26)]

\* the value a caller passes for register i
RegValue(i) == \H1000 + i

\* the little-endian word of bytes 4k+1..4k+4 of a byte sequence
WordOf(bytes, k) ==
    bytes[4 * k + 1] + 256 * bytes[4 * k + 2] + 65536 * bytes[4 * k + 3]
        + 16777216 * bytes[4 * k + 4]

ThrowKinds == {"Throw", "Throw_failure", "Throw_exception"}

Requests ==
    [kind : {"SetUserString", "SetUserString_noBuffer", "SetUserString_handle"},
     len : LenValues, pat : PatValues]
    \cup [kind : {"Throw"},
          type : {ERRF_ERRTYPE_FAILURE, ERRF_ERRTYPE_LOGGED},
          procId : {1}, fill : {\H5A5A5A5A}]
    \cup [kind : {"Unknown"}]

\* the words the kernel writes to the command buffer for a request
RequestWords(req) ==
    CASE req.kind = "SetUserString" ->
            <<IPC_MakeHeader(2, 1, 2), req.len,
              IPC_Desc_StaticBuffer(Smallest(req.len, \H100), 0), StaticBufAddr>>
      [] req.kind = "SetUserString_noBuffer" ->
            <<IPC_MakeHeader(2, 1, 0), req.len>>
      [] req.kind = "SetUserString_handle" ->
            <<IPC_MakeHeader(2, 1, 2), req.len, 0, \H1234>>
      [] req.kind = "Throw" ->
            <<IPC_MakeHeader(1, 32, 0), req.type, req.fill, req.fill, req.procId>>
            \o [k \in 1..28 |-> req.fill]
      [] req.kind = "Throw_failure" ->
            <<IPC_MakeHeader(1, 32, 0), ERRF_ERRTYPE_FAILURE, \H0D900458, \H100100,
              req.procId, \H2A02, \H40130, \H2A02, \H40130>>
            \o [k \in 1..24 |-> WordOf(FailureMessage(req.mesgLen), k - 1)]
      [] req.kind = "Throw_exception" ->
            <<IPC_MakeHeader(1, 32, 0), ERRF_ERRTYPE_EXCEPTION, 0, \H100100,
              req.procId, \H2A02, \H40130, \H2A02, \H40130,
              req.excepType, \H0F5A, \H0FA4, \H0FE0, \H0F11, \H0F12>>
            \o [k \in 1..17 |-> RegValue(k - 1)]
            \o <<\H7C7C7C7C>>
      [] OTHER -> <<IPC_MakeHeader(3, 0, 0)>>

\* the bytes the kernel copies to static buffer 0 for a request
RequestData(req) ==
    IF req.kind = "SetUserString"
    THEN CallerString(req.pat, Smallest(req.len, \H100))
    ELSE <<>>

----------------------------------------------------------------------------
(* The err:f service: menu calls of the Throw handler *)

Menu == [refCount |-> menuRefCount, frozen |-> frozen, cache |-> framebufferCache]

menuEnter(m, allocated) ==
    IF ~menuShouldExit /\ m.refCount = 0
    THEN IF allocated
         THEN [refCount |-> 1, frozen |-> ~m.frozen, cache |-> TRUE]
         ELSE [refCount |-> 0, frozen |-> m.frozen, cache |-> m.cache]
    ELSE m

menuLeave(m) ==
    IF m.refCount - 1 = 0
    THEN [refCount |-> 0, frozen |-> ~m.frozen, cache |-> FALSE]
    ELSE [m EXCEPT !.refCount = m.refCount - 1]

RECURSIVE strlenFrom(_, _)
strlenFrom(buf, i) == IF At(buf, i) = 0 THEN i ELSE strlenFrom(buf, i + 1)

strlen(buf) == strlenFrom(buf, 0)

----------------------------------------------------------------------------
(* The err:f service: ERRF_HandleCommands and errDispThreadMain *)

\* what the loop does after an iteration that did not break
errDisp_continue == IF preTerminationRequested THEN "exited" ELSE "wait"

\* the command buffer as svcReplyAndReceive finds it
errDisp_cmdbuf == IF replyTarget = 0 THEN Store(cmdbuf, 0, NoReplyHeader) ELSE cmdbuf

\* the call of svcReplyAndReceive: the reply target, then the handles after
\* the pre-termination event that it waits on
errDisp_call ==
    <<Ev("svcReplyAndReceive", "replyTarget", replyTarget),
      Ev("svcReplyAndReceive", "handles", serverHandle)>>
    \o (IF sessionHandle = 0 THEN <<>>
        ELSE <<Ev("svcReplyAndReceive", "handles", sessionHandle)>>)

\* whether the session has an unanswered request once svcReplyAndReceive has
\* sent the reply to replyTarget
errDisp_replied == IF replyTarget # 0 THEN FALSE ELSE pending

\* (mutant) the close branch keeping the closed handle as the session
errDisp_closed_keep == [sessionHandle |-> sessionHandle, replyTarget |-> 0]

\* the assignments of the 0xC920181A branch
errDisp_closed == [sessionHandle |-> 0, replyTarget |-> 0]

ERRF_HandleCommands_malformed_headerOnly ==
    At(cmdbuf, 0) # IPC_MakeHeader(2, 1, 2)

ERRF_HandleCommands_malformed ==
    \/ At(cmdbuf, 0) # IPC_MakeHeader(2, 1, 2)
    \/ AndBits(At(cmdbuf, 2), \H3C0F, 16) # 2

ERRF_HandleCommands_sz == IF ULe(At(cmdbuf, 1), \H100) THEN At(cmdbuf, 1) ELSE \H100

ERRF_HandleCommands_reply(header, status) == Store(Store(cmdbuf, 0, header), 1, status)

\* word k of the ERRF_FatalErrInfo copied from cmdbuf + 1
InfoWord(k) == At(cmdbuf, 1 + k)

\* info->data.exception_data.regs as a u32 array, from offset 0x38 of info
ERRF_FormatError_regs == [i \in 0..17 |-> InfoWord(14 + i)]

\* info->data.failure_mesg, the 0x60 bytes from offset 0x20 of info
ERRF_FormatError_failure_mesg == TlsBytes(4 + \H20, \H60)

registerNames ==
    <<"r0", "r1", "r2", "r3", "r4", "r5", "r6", "r7", "r8", "r9", "r10", "r11", "r12",
      "sp", "lr", "pc", "cpsr">>

\* the bytes "%s" prints for a character array
RECURSIVE CString(_)
CString(bytes) ==
    IF bytes = <<>> \/ Head(bytes) = 0 THEN <<>>
    ELSE <<Head(bytes)>> \o CString(Tail(bytes))

\* (mutant) the value printed with registerNames[i + 1] taken from regs[i]
ERRF_FormatError_second_same(regs, i) == regs[i]

\* the value printed with registerNames[i + 1]
ERRF_FormatError_second(regs, i) == IF i = 16 THEN regs[20] ELSE regs[i + 1]

\* the loop over the registers from index i on: the names and values printed
RECURSIVE ERRF_FormatError_registers(_, _)
ERRF_FormatError_registers(regs, i) ==
    IF ~(i < 17) THEN <<>>
    ELSE <<[name |-> registerNames[i + 1], value |-> regs[i]]>>
         \o (IF i # 16
             THEN <<[name |-> registerNames[i + 2],
                     value |-> ERRF_FormatError_second(regs, i)]>>
             ELSE <<>>)
         \o ERRF_FormatError_registers(regs, i + 2)

\* the registers printed after the loop for the exception type
ERRF_FormatError_excep(type) ==
    IF type \in {ERRF_EXCEPTION_PREFETCH_ABORT, ERRF_EXCEPTION_DATA_ABORT}
    THEN <<[name |-> "far", value |-> InfoWord(10)],
           [name |-> "fsr", value |-> InfoWord(9)]>>
    ELSE IF type = ERRF_EXCEPTION_VFP
    THEN <<[name |-> "fpexc", value |-> InfoWord(11)],
           [name |-> "fpinst", value |-> InfoWord(12)],
           [name |-> "fpinst2", value |-> InfoWord(13)]>>
    ELSE <<>>

\* (mutant) the failure message left as received
ERRF_FormatError_terminated_not(mesg) == mesg

\* info->data.failure_mesg[0x5F] = 0
ERRF_FormatError_terminated(mesg) == [mesg EXCEPT ![\H5F + 1] = 0]

\* the description printed last: its bytes for a failure message, else the
\* index of the fixed text (0 for the empty one)
ERRF_FormatError_desc(type) ==
    IF type = ERRF_ERRTYPE_FAILURE
    THEN CString(ERRF_FormatError_terminated(ERRF_FormatError_failure_mesg))
    ELSE IF type = ERRF_ERRTYPE_CARD_REMOVED THEN <<-ERRF_ERRTYPE_CARD_REMOVED>>
    ELSE IF type = ERRF_ERRTYPE_MEM_CORRUPT THEN <<-ERRF_ERRTYPE_MEM_CORRUPT>>
    ELSE <<>>

\* what ERRF_FormatError writes for the info in the command buffer, when
\* svcOpenProcess succeeded or not
ERRF_FormatError(opened) ==
    LET type == ByteOf(InfoWord(0), 0)
        excepType == ByteOf(InfoWord(8), 0)
    IN  [type |-> IF type = ERRF_ERRTYPE_EXCEPTION
                  THEN <<ERRF_ERRTYPE_EXCEPTION,
                         IF excepType > ERRF_EXCEPTION_VFP THEN 4 ELSE excepType>>
                  ELSE <<IF type > ERRF_ERRTYPE_LOGGED THEN 6 ELSE type>>,
         process |-> IF type = ERRF_ERRTYPE_CARD_REMOVED THEN <<>>
                     ELSE <<InfoWord(3)>> \o (IF opened THEN <<1>> ELSE <<>>),
         registers |-> IF type = ERRF_ERRTYPE_EXCEPTION
                       THEN ERRF_FormatError_registers(ERRF_FormatError_regs, 0)
                            \o ERRF_FormatError_excep(excepType)
                       ELSE <<>>,
         code |-> IF type \in {ERRF_ERRTYPE_EXCEPTION, ERRF_ERRTYPE_CARD_REMOVED} THEN <<>>
                  ELSE (IF type # ERRF_ERRTYPE_FAILURE THEN <<InfoWord(2)>> ELSE <<>>)
                       \o <<InfoWord(1)>>,
         desc |-> ERRF_FormatError_desc(type)]

\* waitInputWithTimeout line 80: the loop is left without a key
waitInputWithTimeout_gaveUp == ~isHidInitialized \/ menuShouldExit

\* case 1 up to the call of waitInput
ERRF_HandleCommands_Throw ==
    LET type == ByteOf(At(cmdbuf, 1), 0)
        procId == At(cmdbuf, 4)
    IN  IF ~menuShouldExit /\ (type # ERRF_ERRTYPE_LOGGED \/ procId = 0)
        THEN \E allocated \in BOOLEAN, opened \in BOOLEAN :
                 LET entered == menuEnter(Menu, allocated)
                 IN  /\ menuRefCount' = entered.refCount
                     /\ frozen' = entered.frozen
                     /\ framebufferCache' = entered.cache
                     /\ trace' = <<Ev("menuEnter", "menuRefCount", entered.refCount),
                                   Ev("ERRF_DisplayError", "userString", strlen(userString))>>
                     /\ ret' = [fn |-> "ERRF_DisplayError", req |-> ret.req,
                                branch |-> "Throw", after |-> ret.after,
                                out |-> ERRF_FormatError(opened)]
                     /\ errPc' = "waitInput"
                     /\ UNCHANGED <<cmdbuf, replyTarget, userString>>
        ELSE /\ trace' = <<>>
             /\ cmdbuf' = ERRF_HandleCommands_reply(IPC_MakeHeader(1, 1, 0), 0)
             /\ ret' = [ret EXCEPT !.fn = "ERRF_HandleCommands", !.branch = "Throw"]
             /\ replyTarget' = sessionHandle
             /\ errPc' = errDisp_continue
             /\ UNCHANGED <<menuRefCount, frozen, framebufferCache, userString>>

\* case 1 from the iteration of waitInputWithTimeout that leaves its loop to
\* the loop condition of errDispThreadMain; an iteration that reads no key
\* and does not give up changes nothing
ERRF_HandleCommands_waitInput ==
    /\ errPc = "waitInput"
    /\ \E keys \in IF waitInputWithTimeout_gaveUp THEN {0} ELSE {1} :
           LET left == menuLeave(Menu)
           IN  /\ menuRefCount' = left.refCount
               /\ frozen' = left.frozen
               /\ framebufferCache' = left.cache
               /\ trace' = <<Ev("waitInput", "keys", keys),
                             Ev("menuLeave", "menuRefCount", left.refCount)>>
    /\ cmdbuf' = ERRF_HandleCommands_reply(IPC_MakeHeader(1, 1, 0), 0)
    /\ ret' = [fn |-> "ERRF_HandleCommands", req |-> ret.req, branch |-> ret.branch,
               after |-> ret.after]
    /\ replyTarget' = sessionHandle
    /\ errPc' = errDisp_continue
    /\ UNCHANGED <<svcVars, unmapVars, trapVars, serverHandle, sessionHandle,
                   preTerminationRequested, pending, sbuf, staticBuf, userString,
                   menuShouldExit, isHidInitialized, menuPc>>

\* case 2
ERRF_HandleCommands_SetUserString ==
    /\ IF ERRF_HandleCommands_malformed
       THEN /\ cmdbuf' = ERRF_HandleCommands_reply(IPC_MakeHeader(0, 1, 0), InvalidCommand)
            /\ ret' = [ret EXCEPT !.fn = "ERRF_HandleCommands", !.branch = "rejected"]
            /\ UNCHANGED userString
       ELSE LET sz == ERRF_HandleCommands_sz
            IN  /\ userString' = Store(memcpy(userString, TlsBytes(3 * 4, sz)), sz, 0)
                /\ cmdbuf' = ERRF_HandleCommands_reply(IPC_MakeHeader(2, 1, 0), 0)
                /\ ret' = [ret EXCEPT !.fn = "ERRF_HandleCommands", !.branch = "stored"]
    /\ trace' = <<>>
    /\ replyTarget' = sessionHandle
    /\ errPc' = errDisp_continue
    /\ UNCHANGED <<menuRefCount, frozen, framebufferCache>>

\* the iteration from the return of svcReplyAndReceive with a request on
\* the session to the loop condition
ERRF_HandleCommands ==
    /\ errPc = "handle"
    /\ CASE Shr(At(cmdbuf, 0), 16) = 1 -> ERRF_HandleCommands_Throw
         [] Shr(At(cmdbuf, 0), 16) = 2 -> ERRF_HandleCommands_SetUserString
         [] OTHER -> /\ ret' = [ret EXCEPT !.fn = "ERRF_HandleCommands", !.branch = "none"]
                     /\ trace' = <<>>
                     /\ replyTarget' = sessionHandle
                     /\ errPc' = errDisp_continue
                     /\ UNCHANGED <<cmdbuf, userString, menuRefCount, frozen,
                                    framebufferCache>>
    /\ UNCHANGED <<svcVars, unmapVars, trapVars, serverHandle, sessionHandle, preTerminationRequested, pending,
                   sbuf, staticBuf, menuShouldExit, isHidInitialized, menuPc>>

\* the thread starts: static buffer descriptors, then the port
errDisp_start ==
    /\ errPc = "start"
    /\ \E slot1 \in {0, IPC_Desc_StaticBuffer(0, 1)}, created \in BOOLEAN :
           /\ sbuf' = Trim(<<IPC_Desc_StaticBuffer(\H100, 0), StaticBufAddr, slot1>>)
           /\ errPc' = IF created THEN "wait" ELSE "panic"
           /\ serverHandle' = IF created THEN PortHandle ELSE 0
           /\ trace' = <<Ev("svcCreatePort", "created", IF created THEN 1 ELSE 0)>>
                          \o (IF created THEN <<>>
                              ELSE <<Ev("svcBreak", "USERBREAK_PANIC", 0)>>)
    /\ UNCHANGED <<svcVars, unmapVars, trapVars, sessionHandle, replyTarget, pending,
                   preTerminationRequested, cmdbuf, staticBuf, userString, menuVars, ret>>

\* svcReplyAndReceive returns index 2: a request on the session
errDisp_request(req) ==
    /\ errPc = "wait"
    /\ sessionHandle # 0
    /\ req.kind \in ThrowKinds => menuRefCount > -MaxMenuUnderflow
    /\ cmdbuf' = memcpy(errDisp_cmdbuf, RequestWords(req))
    /\ staticBuf' = memcpy(staticBuf, RequestData(req))
    /\ errPc' = "handle"
    /\ pending' = TRUE
    /\ trace' = errDisp_call
    /\ ret' = [fn |-> "svcReplyAndReceive", req |-> req, branch |-> "none",
               after |-> IF ret.fn = "ERRF_HandleCommands" THEN ret.branch ELSE "none"]
    /\ UNCHANGED <<svcVars, unmapVars, trapVars, serverHandle, sessionHandle, replyTarget,
                   preTerminationRequested, sbuf, userString, menuVars>>

\* what ret records when svcReplyAndReceive failed with 0xC920181A
SessionClosed(session) ==
    [fn |-> "svcReplyAndReceive", res |-> SessionClosedByRemote, session |-> session]

\* failing results of svcReplyAndReceive: 0xC920181A, 0xC920181B, 0xC920081A,
\* 0xD8E007F7, 0xFFFFFFFF
FailedResults ==
    {SessionClosedByRemote, SessionClosedByRemote + 1, SessionClosedByRemote - 4096,
     InvalidHandle, -1}

\* (mutant) the test as a comparison of the upper half of the result
errDisp_isSessionClosed_upperHalf(res) ==
    Shr(res, 16) = Shr(SessionClosedByRemote, 16)

\* (u32)res == 0xC920181A
errDisp_isSessionClosed(res) == res = SessionClosedByRemote

errDisp_failedCall(res) == errDisp_call \o <<Ev("svcReplyAndReceive", "res", res)>>

\* svcReplyAndReceive fails with 0xC920181A: session closed by remote
errDisp_sessionClosed ==
    \E res \in FailedResults :
    /\ errDisp_isSessionClosed(res)
    /\ errPc = "wait"
    /\ sessionHandle # 0
    /\ cmdbuf' = errDisp_cmdbuf
    /\ sessionHandle' = errDisp_closed.sessionHandle
    /\ replyTarget' = errDisp_closed.replyTarget
    /\ pending' = FALSE
    /\ errPc' = errDisp_continue
    /\ trace' = errDisp_failedCall(res)
                  \o <<Ev("svcCloseHandle", "sessionHandle", sessionHandle)>>
    /\ ret' = SessionClosed(sessionHandle)
    /\ UNCHANGED <<svcVars, unmapVars, trapVars, serverHandle, preTerminationRequested, sbuf,
                   staticBuf, userString, menuVars>>

\* svcReplyAndReceive fails with anything else
errDisp_failed ==
    \E res \in FailedResults :
    /\ ~errDisp_isSessionClosed(res)
    /\ errPc = "wait"
    /\ cmdbuf' = errDisp_cmdbuf
    /\ errPc' = "panic"
    /\ pending' = errDisp_replied
    /\ trace' = errDisp_failedCall(res) \o <<Ev("svcBreak", "USERBREAK_PANIC", 0)>>
    /\ ret' = NoCall
    /\ UNCHANGED <<svcVars, unmapVars, trapVars, serverHandle, sessionHandle, replyTarget,
                   preTerminationRequested, sbuf, staticBuf, userString, menuVars>>

\* svcReplyAndReceive returns index 0: the pre-termination event
errDisp_terminated ==
    /\ errPc = "wait"
    /\ cmdbuf' = errDisp_cmdbuf
    /\ errPc' = "exited"
    /\ pending' = errDisp_replied
    /\ trace' = errDisp_call
    /\ ret' = NoCall
    /\ UNCHANGED <<svcVars, unmapVars, trapVars, serverHandle, sessionHandle, replyTarget,
                   preTerminationRequested, sbuf, staticBuf, userString, menuVars>>

\* the handle svcAcceptSession returns: the lowest value that is not open
svcAcceptSession_session ==
    CHOOSE h \in SessionValues \ {sessionHandle} :
        \A other \in SessionValues \ {sessionHandle} : h <= other

\* svcReplyAndReceive returns index 1: a connection on the port
errDisp_connection ==
    /\ errPc = "wait"
    /\ cmdbuf' = errDisp_cmdbuf
    /\ pending' = errDisp_replied
    /\ \E accepted \in BOOLEAN :
           LET session == svcAcceptSession_session
           IN
           IF ~accepted
           THEN /\ errPc' = "panic"
                /\ trace' = errDisp_call
                              \o <<Ev("svcAcceptSession", "serverHandle", serverHandle),
                                   Ev("svcBreak", "USERBREAK_PANIC", 0)>>
                /\ UNCHANGED sessionHandle
           ELSE /\ errPc' = errDisp_continue
                /\ IF sessionHandle = 0
                   THEN /\ sessionHandle' = session
                        /\ trace' = errDisp_call
                                      \o <<Ev("svcAcceptSession", "serverHandle", serverHandle)>>
                   ELSE /\ UNCHANGED sessionHandle
                        /\ trace' = errDisp_call
                                      \o <<Ev("svcAcceptSession", "serverHandle", serverHandle),
                                           Ev("svcCloseHandle", "session", session)>>
    /\ UNCHANGED <<svcVars, unmapVars, trapVars, serverHandle, replyTarget, preTerminationRequested,
                   sbuf, staticBuf, userString, menuVars, ret>>

\* menuThreadMain has waited for hid:USER and initialises HID
menuThreadMain_hidInit ==
    /\ ~isHidInitialized
    /\ isHidInitialized' = TRUE
    /\ UNCHANGED <<svcVars, unmapVars, trapVars, serverVars, bufVars, menuRefCount,
                   menuShouldExit, menuPc, frozen, framebufferCache, trace, ret>>

\* another thread sets or clears menuShouldExit
SetMenuShouldExit ==
    /\ errPc \in {"wait", "handle", "waitInput"}
    /\ menuShouldExit' = ~menuShouldExit
    /\ UNCHANGED <<svcVars, unmapVars, trapVars, serverVars, bufVars, menuRefCount,
                   isHidInitialized, menuPc, frozen, framebufferCache, trace, ret>>

\* menuThreadMain's loop from its condition to the test of menuShouldExit,
\* which it passes; no thread runs once svcBreak(USERBREAK_PANIC) was called
menuThreadMain_check ==
    /\ menuPc = "loop"
    /\ errPc # "panic"
    /\ isHidInitialized
    /\ ~preTerminationRequested
    /\ ~menuShouldExit
    /\ menuRefCount > -MaxMenuUnderflow
    /\ menuPc' = "checked"
    /\ UNCHANGED <<svcVars, unmapVars, trapVars, serverVars, bufVars, menuRefCount,
                   menuShouldExit, isHidInitialized, frozen, framebufferCache, trace, ret>>

\* menuThreadMain's test of the menu combo: with the combo held it calls
\* menuEnter, which takes the draw lock the Throw handler holds while its
\* display is shown, and goes on to menuShow
menuThreadMain_menuEnter ==
    /\ menuPc = "checked"
    /\ errPc # "panic"
    /\ \E held \in BOOLEAN, allocated \in BOOLEAN :
           IF held
           THEN LET entered == menuEnter(Menu, allocated)
                IN  /\ errPc # "waitInput"
                    /\ menuRefCount' = entered.refCount
                    /\ frozen' = entered.frozen
                    /\ framebufferCache' = entered.cache
                    /\ menuPc' = "menuShow"
           ELSE /\ menuPc' = "loop"
                /\ UNCHANGED <<menuRefCount, frozen, framebufferCache>>
    /\ UNCHANGED <<svcVars, unmapVars, trapVars, serverVars, bufVars, menuShouldExit,
                   isHidInitialized, trace, ret>>

\* menuShow returns and menuThreadMain calls menuLeave
menuThreadMain_menuLeave ==
    /\ menuPc = "menuShow"
    /\ errPc # "panic"
    /\ errPc # "waitInput"
    /\ LET left == menuLeave(Menu)
       IN  /\ menuRefCount' = left.refCount
           /\ frozen' = left.frozen
           /\ framebufferCache' = left.cache
    /\ menuPc' = "loop"
    /\ UNCHANGED <<svcVars, unmapVars, trapVars, serverVars, bufVars, menuShouldExit,
                   isHidInitialized, trace, ret>>

\* the main thread asks the service threads to stop
RequestPreTermination ==
    /\ errPc \in {"wait", "handle", "waitInput"}
    /\ ~preTerminationRequested
    /\ preTerminationRequested' = TRUE
    /\ UNCHANGED <<svcVars, unmapVars, trapVars, serverHandle, errPc, sessionHandle, replyTarget,
                   pending, bufVars, menuVars, trace, ret>>

----------------------------------------------------------------------------
(* ntpGetTimeStamp *)

\* the u32 with bytes b3 b2 b1 b0, b0 the lowest
U32(b3, b2, b1, b0) ==
    b0 + 256 * b1 + 65536 * b2 + 16777216 * (IF b3 >= 128 THEN b3 - 256 ELSE b3)

\* ntohl and htonl on a little-endian host
ntohl(w) == U32(ByteOf(w, 0), ByteOf(w, 1), ByteOf(w, 2), ByteOf(w, 3))

\* 2208988800 as a u32
NTP_TIMESTAMP_DELTA == -2085978496

\* results of miniSocInit: success and two failures
MiniSocInitResults == {0, InvalidHandle, -1}

\* values socSocket returns: descriptors, plain failures, and results of a
\* broken socket service below -10000
SockValues == {0, 3, 5, -1, -10000, -10001, -26000}

\* transmit seconds a server sends (0x83AA7E80 is 1970, the others later),
\* as the host reads them from the packet before ntohl
TxValues ==
    {ntohl(t) : t \in {NTP_TIMESTAMP_DELTA, NTP_TIMESTAMP_DELTA + 1, -1610612736,
                       -536870912, -402653183, -268435456, -1}}

\* the value of *outTimestamp before the call
TimestampValues == {0, 946684800, 1549107584}

\* ntpGetTimeStamp from cleanup: on to the return
ntpGetTimeStamp_cleanup(sock) ==
    <<Ev("socSetsockopt", "SO_LINGER", sock),
      Ev("socClose", "sock", sock),
      Ev("miniSocExit", "call", 0)>>

\* ntpGetTimeStamp(outTimestamp): init is what miniSocInit returns, sock what
\* socSocket returns, connected, sent and received what socConnect, socSend
\* and socRecv return, tx the packet's txTm_s as received
ntpGetTimeStamp(before, init, sock, connected, sent, received, tx) ==
    /\ svcPc = "user"
    /\ svcPc' = "ntpReturned"
    /\ sock < 0 => connected < 0
    /\ LET out(res, timestamp) ==
               [fn |-> "ntpGetTimeStamp", res |-> res, before |-> before,
                outTimestamp |-> timestamp]
           opened == <<Ev("miniSocInit", "res", init), Ev("socSocket", "sock", sock)>>
       IN  IF init < 0
           THEN /\ trace' = <<Ev("miniSocInit", "res", init)>>
                /\ ret' = out(init, before)
           ELSE IF sock < -10000
           THEN /\ trace' = opened
                /\ ret' = out(sock, before)
           ELSE IF connected < 0
           THEN /\ trace' = opened \o <<Ev("socConnect", "res", connected)>>
                                   \o ntpGetTimeStamp_cleanup(sock)
                /\ ret' = out(-1, before)
           ELSE IF sent < 0
           THEN /\ trace' = opened \o <<Ev("socConnect", "res", connected),
                                         Ev("socSend", "res", sent)>>
                                   \o ntpGetTimeStamp_cleanup(sock)
                /\ ret' = out(-1, before)
           ELSE IF received < 0
           THEN /\ trace' = opened \o <<Ev("socConnect", "res", connected),
                                         Ev("socSend", "res", sent),
                                         Ev("socRecv", "res", received)>>
                                   \o ntpGetTimeStamp_cleanup(sock)
                /\ ret' = out(-1, before)
           ELSE /\ trace' = opened \o <<Ev("socConnect", "res", connected),
                                         Ev("socSend", "res", sent),
                                         Ev("socRecv", "res", received)>>
                                   \o ntpGetTimeStamp_cleanup(sock)
                /\ ret' = out(0, ntohl(tx) - NTP_TIMESTAMP_DELTA)
    /\ UNCHANGED <<svcVars, unmapVars, errVars, pageEnd>>

\* the caller goes on after ntpGetTimeStamp returned
ntpGetTimeStamp_returned ==
    /\ svcPc = "ntpReturned"
    /\ svcPc' = "user"
    /\ trace' = <<>>
    /\ ret' = NoCall
    /\ UNCHANGED <<svcVars, unmapVars, errVars, pageEnd>>

----------------------------------------------------------------------------
(* Initial values shared by the specifications *)

TrapIdle ==
    /\ svcPc = "user"
    /\ pageEnd = NoFrame
    /\ trace = <<>>
    /\ ret = NoCall

UnmapIdle ==
    /\ kernelVersion = 37
    /\ refCount = [p \in Procs |-> 1]
    /\ handleTable = [p \in Procs |-> [h \in HandleValues |-> NoObject]]
    /\ mapped = [p \in Procs |-> {}]

\* the error-display thread not started yet
ErrIdle ==
    /\ errPc = "start"
    /\ serverHandle = 0
    /\ sessionHandle = 0
    /\ replyTarget = 0
    /\ preTerminationRequested = FALSE
    /\ pending = FALSE
    /\ cmdbuf = <<>>
    /\ sbuf = <<>>
    /\ staticBuf = <<>>
    /\ userString = <<>>
    /\ menuRefCount = 0
    /\ menuShouldExit = FALSE
    /\ isHidInitialized = FALSE
    /\ menuPc = "loop"
    /\ frozen = FALSE
    /\ framebufferCache = FALSE

SvcIdle ==
    /\ debugged = {}
    /\ customFlags = [p \in Procs |-> {}]
    /\ threadList = <<>>
    /\ criticalSectionLock = 0
    /\ plgStatus = "PLG_CFG_NONE"
    /\ plgEvents = {}
    /\ memLayoutEvents = {}
    /\ officialSVCs = [i \in 0..\H7D |-> Official("kernelA", i)]

----------------------------------------------------------------------------
(* SpecSvc: the hooks on every frame *)

SvcInit ==
    /\ currentProcess \in Procs
    /\ customFlags = [p \in Procs |-> IF p = 1 THEN {"SignalOnExit"} ELSE {}]
    /\ debugged \in {{}, {1}}
    /\ threadList = <<KThread(1, \H21), KThread(2, \H20)>>
    /\ criticalSectionLock = 0
    /\ plgStatus = "PLG_CFG_RUNNING"
    /\ plgEvents = {}
    /\ memLayoutEvents = {}
    /\ officialSVCs \in KernelTables
    /\ UnmapIdle
    /\ ErrIdle
    /\ TrapIdle

SvcNext ==
    \/ \E frame \in Frames : SvcTrap(frame)
    \/ signalSvcEntry
    \/ svcHook
    \/ signalSvcReturn
    \/ SvcExit

SpecSvc == SvcInit /\ [][SvcNext]_vars

----------------------------------------------------------------------------
(* SpecExit: process termination over every thread list *)

\* the thread lists of at most MaxThreads threads
ThreadLists ==
    UNION {[1..n -> {KThread(p, m) : p \in Procs, m \in MaskValues}] : n \in 0..MaxThreads}

\* frames of the process-termination call, directly and through the escape
\* byte, and of two other calls
ExitFrames ==
    {MakeFrame(\H03, R11Value, \H1B0), MakeFrame(\HFE, R11Value, \H03),
     MakeFrame(\H01, R11Value, \H03), MakeFrame(\HFE, R11Value, \H103)}

ExitInit ==
    /\ currentProcess \in Procs
    /\ \E f \in {{}, {"SignalOnExit"}} :
           customFlags = [p \in Procs |-> IF p = currentProcess THEN f ELSE {}]
    /\ debugged = {}
    /\ threadList \in ThreadLists
    /\ criticalSectionLock = 0
    /\ plgStatus \in {"PLG_CFG_NONE", "PLG_CFG_RUNNING"}
    /\ plgEvents = {}
    /\ memLayoutEvents = {}
    /\ officialSVCs = [i \in 0..\H7D |-> Official("kernelA", i)]
    /\ UnmapIdle
    /\ ErrIdle
    /\ TrapIdle

ExitNext ==
    \/ \E frame \in ExitFrames : SvcTrap(frame)
    \/ signalSvcEntry
    \/ svcHook
    \/ signalSvcReturn
    \/ SvcExit

SpecExit == ExitInit /\ [][ExitNext]_vars

----------------------------------------------------------------------------
(* SpecReturn: the return path of a call over every set of custom flags *)

ReturnInit ==
    /\ currentProcess \in Procs
    /\ \E f \in SUBSET CustomFlagNames :
           customFlags = [p \in Procs |->
                             IF p = currentProcess THEN f
                             ELSE {"SignalOnMemLayoutChanges", "MemLayoutChanged"}]
    /\ debugged \in {{}, {1}}
    /\ threadList = <<KThread(1, \H21), KThread(2, \H20)>>
    /\ criticalSectionLock = 0
    /\ plgStatus = "PLG_CFG_RUNNING"
    /\ plgEvents = {}
    /\ memLayoutEvents = {}
    /\ officialSVCs = [i \in 0..\H7D |-> Official("kernelA", i)]
    /\ UnmapIdle
    /\ ErrIdle
    /\ TrapIdle

ReturnNext ==
    \/ \E frame \in ExitFrames : SvcTrap(frame)
    \/ signalSvcEntry
    \/ svcHook
    \/ signalSvcReturn
    \/ postprocessSvc
    \/ postprocessSvc_resumed

SpecReturn == ReturnInit /\ [][ReturnNext]_vars

----------------------------------------------------------------------------
(* SpecFlags: the return hook of one thread while another thread of the
   process sets custom flags *)

FlagsNext ==
    \/ \E frame \in ExitFrames : SvcTrap(frame)
    \/ signalSvcEntry
    \/ svcHook
    \/ signalSvcReturn_read
    \/ signalSvcReturn_write
    \/ SvcExit
    \/ \E flag \in CustomFlagNames : OtherThread_setFlag(flag)

SpecFlags == ReturnInit /\ [][FlagsNext]_vars

----------------------------------------------------------------------------
(* SpecUnmap: the extended and the legacy unmap handlers *)

\* handle 1 names the current process, handle 2 another process or nothing,
\* handle 3 nothing
UnmapInit ==
    /\ currentProcess \in Procs
    /\ SvcIdle
    /\ kernelVersion \in {36, 37, 38}
    /\ \E other \in (Procs \ {currentProcess}) \cup {NoObject} :
           /\ handleTable = [p \in Procs |->
                                IF p = currentProcess
                                THEN [h \in HandleValues |->
                                         IF h = 1 THEN currentProcess
                                         ELSE IF h = 2 THEN other ELSE NoObject]
                                ELSE [h \in HandleValues |-> NoObject]]
           /\ refCount = [p \in Procs |->
                             1 + (IF p = currentProcess THEN 1 ELSE 0)
                               + (IF p = other THEN 1 ELSE 0)]
    /\ mapped = [p \in Procs |-> Pages]
    /\ ErrIdle
    /\ TrapIdle

UnmapNext ==
    \/ \E h \in HandleValues \cup {CUR_PROCESS_HANDLE}, dst \in DstValues, size \in SizeValues :
           UnmapProcessMemoryEx(h, dst, size)
    \/ \E h \in HandleValues \cup {CUR_PROCESS_HANDLE}, dst \in DstValues, size \in SizeValues :
           UnmapProcessMemory(h, dst, size)
    \/ SvcExit

SpecUnmap == UnmapInit /\ [][UnmapNext]_vars

----------------------------------------------------------------------------
(* SpecErrf: the err:f server over every request *)

ErrInit ==
    /\ currentProcess = 1
    /\ SvcIdle
    /\ UnmapIdle
    /\ ErrIdle
    /\ TrapIdle

ErrNext ==
    \/ errDisp_start
    \/ \E req \in Requests : errDisp_request(req)
    \/ ERRF_HandleCommands
    \/ ERRF_HandleCommands_waitInput
    \/ errDisp_sessionClosed
    \/ errDisp_failed
    \/ errDisp_terminated
    \/ errDisp_connection
    \/ RequestPreTermination

SpecErrf == ErrInit /\ [][ErrNext]_vars

----------------------------------------------------------------------------
(* SpecThrow: Throw requests while other threads change the menu flags *)

ThrowRequests ==
    {req \in Requests : req.kind = "Throw"}
    \cup [kind : {"Throw_failure"}, procId : {1}, mesgLen : MesgLens]
    \cup [kind : {"Throw_exception"}, procId : {1},
          excepType : {ERRF_EXCEPTION_PREFETCH_ABORT, 2, ERRF_EXCEPTION_VFP}]

ThrowNext ==
    \/ errDisp_start
    \/ \E req \in ThrowRequests : errDisp_request(req)
    \/ ERRF_HandleCommands
    \/ ERRF_HandleCommands_waitInput
    \/ errDisp_sessionClosed
    \/ errDisp_failed
    \/ errDisp_terminated
    \/ errDisp_connection
    \/ RequestPreTermination
    \/ menuThreadMain_hidInit
    \/ SetMenuShouldExit

SpecThrow == ErrInit /\ [][ThrowNext]_vars

----------------------------------------------------------------------------
(* SpecMenu: the menu thread and the Throw handler of the error-display
   thread, both entering and leaving the menu *)

MenuRequests == {req \in Requests : req.kind = "Throw"}

MenuNext ==
    \/ errDisp_start
    \/ \E req \in MenuRequests : errDisp_request(req)
    \/ ERRF_HandleCommands
    \/ ERRF_HandleCommands_waitInput
    \/ errDisp_sessionClosed
    \/ errDisp_failed
    \/ errDisp_terminated
    \/ errDisp_connection
    \/ RequestPreTermination
    \/ menuThreadMain_hidInit
    \/ SetMenuShouldExit
    \/ menuThreadMain_check
    \/ menuThreadMain_menuEnter
    \/ menuThreadMain_menuLeave

SpecMenu == ErrInit /\ [][MenuNext]_vars

----------------------------------------------------------------------------
(* SpecNtp: ntpGetTimeStamp over every outcome of the socket calls *)

NtpNext ==
    \/ \E before \in TimestampValues, init \in MiniSocInitResults, sock \in SockValues,
          connected \in {0, -1}, sent \in {48, -1}, received \in {48, -1},
          tx \in TxValues :
           ntpGetTimeStamp(before, init, sock, connected, sent, received, tx)
    \/ ntpGetTimeStamp_returned

SpecNtp == ErrInit /\ [][NtpNext]_vars

----------------------------------------------------------------------------
(* Claims about the resolver *)

\* svcHook has returned for the current call
Resolved == svcPc \in {"signalSvcReturn", "returned"}

\* the extended identifiers svcHook has a case for
ExtendedIds == {\H80} \cup (\H90..\H94) \cup (\HA0..\HA3) \cup (\HB0..\HB3)

\* C1 as stated: svcHook returns a handler for every identifier in 0..0x7D and
\* NULL for every identifier above 0x7D.
C1_AsStated ==
    Resolved => IF ULe(ret.hookId, \H7D) THEN ret.handler # NULL ELSE ret.handler = NULL

\* C1 amended: svcHook returns a handler for every identifier in 0..0x7D, one
\* of this layer's own handlers for the extended identifiers 0x80, 0x90..0x94,
\* 0xA0..0xA3 and 0xB0..0xB3, and NULL for every other identifier above 0x7D.
C1_Resolves ==
    Resolved =>
        /\ ULe(ret.hookId, \H7D) => ret.handler # NULL
        /\ ret.hookId \in ExtendedIds => ret.handler.kind = "hook"
        /\ ULt(\H7D, ret.hookId) /\ ret.hookId \notin ExtendedIds => ret.handler = NULL

\* an identifier above the range with no case of its own was rejected
C1_Witness ==
    /\ Resolved
    /\ ret.hookId = \HB4
    /\ ret.handler = NULL

\* C2 as stated: a call of svcHook changes no custom flag, no schedulingMask,
\* not the lock and no event or plugin signal, whatever the identifier.
C2_AsStated ==
    [][svcPc = "svcHook" =>
          /\ UNCHANGED <<customFlags, threadList, criticalSectionLock, plgEvents,
                         memLayoutEvents>>
          /\ trace' = <<>>]_vars

\* C2 amended: a call of svcHook never changes a custom flag or the
\* memory-layout events and leaves the lock as it found it; unless the
\* identifier is 0x03 and the current process has SignalOnExit it changes no
\* schedulingMask, signals nothing and does not touch the lock at all.
C2_PureLookup ==
    [][svcPc = "svcHook" =>
          /\ UNCHANGED <<customFlags, memLayoutEvents, criticalSectionLock>>
          /\ ~(svcHook_svcId(pageEnd) = \H03
                  /\ "SignalOnExit" \in customFlags[currentProcess])
             => /\ UNCHANGED <<threadList, plgEvents>>
                /\ trace' = <<>>]_vars

\* the termination call was resolved for a process without SignalOnExit that
\* owns a held thread, and the thread is still held
C2_Witness ==
    /\ svcPc = "signalSvcReturn"
    /\ ret.hookId = \H03
    /\ "SignalOnExit" \notin customFlags[currentProcess]
    /\ \E i \in 1..Len(threadList) :
           threadList[i].ownerProcess = currentProcess /\ Held(threadList[i])

\* the values the saved r12 slot takes in the frames of the model
AllR12 == R12Values \cup {\H03, \H1B0}

\* C3: for every frame, signalSvcEntry, svcHook and signalSvcReturn derive the
\* same identifier: the id byte when it is not 0xFE, the saved r12 otherwise.
C3_SameIdentifier ==
    svcPc = "returned" =>
        LET b == ReadU8(pageEnd, \HB5)
        IN  \A r12 \in AllR12 :
                pageEnd = MakeFrame(b, R11Value, r12) =>
                    LET id == IF b = \HFE THEN r12 ELSE b
                    IN  ret.entryId = id /\ ret.hookId = id /\ ret.returnId = id

\* the three hooks ran on a frame with the escape byte and an r12 above 16 bits
C3_Witness ==
    /\ svcPc = "returned"
    /\ ReadU8(pageEnd, \HB5) = \HFE
    /\ ret.entryId = \H10003
    /\ ret.returnId = \H10003

\* C4: after svcHook resolved 0x03 for a process with SignalOnExit, no thread
\* of the list owned by that process is held, and running the same loop again
\* changes no schedulingMask.
C4_NoThreadHeld ==
    (/\ svcPc = "signalSvcReturn"
     /\ ret.hookId = \H03
     /\ "SignalOnExit" \in customFlags[currentProcess])
    => /\ \A i \in 1..Len(threadList) :
              threadList[i].ownerProcess = currentProcess => ~Held(threadList[i])
       /\ svcHook_unlockThreads(threadList, currentProcess) = threadList

\* the termination call cleared the held bit of a thread of its process
C4_Witness ==
    /\ svcPc = "signalSvcReturn"
    /\ ret.hookId = \H03
    /\ "SignalOnExit" \in customFlags[currentProcess]
    /\ \E k \in 1..Len(trace) : trace[k].op = "schedulingMask"

\* C17: for the identifier 0x3C svcHook returns officialSVCs[0x3C] exactly
\* when the current process has a debugger attached, and the Break
\* replacement exactly when it has none.
C17_BreakHandler ==
    Resolved /\ ret.hookId = \H3C =>
        /\ ret.handler = officialSVCs[\H3C] <=> currentProcess \in debugged
        /\ ret.handler = Hook("Break") <=> currentProcess \notin debugged

\* the break call of a process without debugger, while another process has
\* one, was given the Break replacement
C17_Witness ==
    /\ Resolved
    /\ ret.hookId = \H3C
    /\ debugged # {}
    /\ currentProcess \notin debugged
    /\ ret.handler = Hook("Break")

\* the identifiers of 0..0x7D svcHook has a replacement for
ReplacedIds == {\H01, \H29, \H2A, \H2B, \H2C, \H2D, \H2E, \H32, \H3C, \H59, \H5A, \H7B, \H7C}

\* C18: for every identifier in 0..0x7D without a replacement, and for 0x03,
\* svcHook returns the entry officialSVCs[id] of the table of the running
\* kernel and leaves the table as it was, whatever the flags of the process
\* and whether or not it has a debugger.
C18_OriginalHandler ==
    /\ Resolved /\ ret.hookId \in (0..\H7D) \ ReplacedIds =>
           /\ ret.handler = officialSVCs[ret.hookId]
           /\ ret.handler.kind = "official"
           /\ ret.handler.idx = ret.hookId
    /\ officialSVCs \in KernelTables

\* the termination call of a debugged process with SignalOnExit on the second
\* kernel image was given that kernel's handler
C18_Witness ==
    /\ svcPc = "signalSvcReturn"
    /\ ret.hookId = \H03
    /\ "SignalOnExit" \in customFlags[currentProcess]
    /\ currentProcess \in debugged
    /\ trace # <<>>
    /\ ret.handler = Official("kernelB", \H03)

----------------------------------------------------------------------------
(* Claims about UnmapProcessMemoryEx *)

\* the step is a call of UnmapProcessMemoryEx
UnmapExStep ==
    svcPc = "user" /\ svcPc' = "returned" /\ ret'.fn = "UnmapProcessMemoryEx"

\* the handler has returned from a call of UnmapProcessMemoryEx
UnmapExDone == svcPc = "returned" /\ ret.fn = "UnmapProcessMemoryEx"

\* tr holds the taking of a process reference
Acquired(tr) ==
    \E k \in 1..Len(tr) :
        \/ tr[k].op = "KAutoObject__AddReference"
        \/ tr[k].op = "KProcessHandleTable__ToKProcess" /\ tr[k].n # NoObject

\* C5: below kernel minor version 37, a call of UnmapProcessMemoryEx with a
\* size within the legacy limit makes the one call UnmapProcessMemory(handle,
\* dst, size), returns its result and changes what that call changes and
\* nothing else.
C5_LegacyDelegation ==
    [][(UnmapExStep /\ kernelVersion < 37 /\ ULe(ret'.args.size, \H4000000)) =>
          /\ trace' = <<Ev("UnmapProcessMemory", "size", ret'.args.size)>>
          /\ ret'.res \in LegacyResults
          /\ mapped' = UnmapProcessMemory_mapped(ret'.args.processHandle, ret'.args.dst,
                                                 ret'.args.size, ret'.res)
          /\ UNCHANGED <<refCount, handleTable, kernelVersion, svcVars>>]_vars

\* on kernel 36 the extended handler unmapped two pages through the legacy call
C5_Witness ==
    /\ UnmapExDone
    /\ kernelVersion = 36
    /\ ret.res = 0
    /\ ret.args.size = \H2000
    /\ mapped[currentProcess] = {\H102}

\* C6: a call of UnmapProcessMemoryEx that took a process reference releases
\* it exactly once, after the page-table unmap, whatever the unmap returned,
\* and leaves every reference count as it was.
C6_ReferenceReleased ==
    [][(UnmapExStep /\ Acquired(trace')) =>
          /\ Len(Only(trace', {"DecrementReferenceCount"})) = 1
          /\ \E k \in 1..Len(trace') :
                 /\ trace'[k].op = "KProcessHwInfo__UnmapProcessMemory"
                 /\ \A j \in 1..Len(trace') :
                        trace'[j].op = "DecrementReferenceCount" => k < j
          /\ \A j, k \in 1..Len(trace') :
                 (trace'[j].op = "DecrementReferenceCount" /\ Acquired(<<trace'[k]>>))
                 => trace'[j].n = trace'[k].n
          /\ refCount' = refCount]_vars

\* the unmap failed on a process resolved from a handle, and its reference
\* was released
C6_Witness ==
    /\ UnmapExDone
    /\ ret.res # 0
    /\ ret.args.processHandle = 2
    /\ Acquired(trace)
    /\ Len(Only(trace, {"DecrementReferenceCount"})) = 1

\* C7: from kernel minor version 37 on, a call of UnmapProcessMemoryEx whose
\* handle resolves to no object returns 0xD8E007F7, attempts no page-table
\* unmap and no cache maintenance, and changes no reference count and no
\* other state.
C7_InvalidHandle ==
    [][(/\ UnmapExStep
        /\ kernelVersion >= 37
        /\ ret'.args.processHandle # CUR_PROCESS_HANDLE
        /\ KProcessHandleTable__ToKProcess(handleTable[currentProcess],
                                           ret'.args.processHandle) = NoObject) =>
          /\ ret'.res = InvalidHandle
          /\ Only(trace', {"KProcessHwInfo__UnmapProcessMemory", "KAutoObject__AddReference",
                           "DecrementReferenceCount", "UnmapProcessMemory",
                           "invalidateEntireInstructionCache", "flushEntireDataCache"}) = <<>>
          /\ UNCHANGED <<refCount, mapped, handleTable, kernelVersion, svcVars>>]_vars

\* the handler returned the invalid-handle error for a handle naming nothing
C7_Witness ==
    /\ UnmapExDone
    /\ kernelVersion >= 37
    /\ ret.args.processHandle = 3
    /\ ret.res = InvalidHandle

\* C8: in a call of UnmapProcessMemoryEx every page-table unmap is followed
\* by an invalidation of the instruction cache and by a flush of the data
\* cache, whatever it returned, and no cache operation comes before it.
C8_CacheMaintenance ==
    UnmapExDone =>
        /\ \A k \in 1..Len(trace) :
               trace[k].op = "KProcessHwInfo__UnmapProcessMemory" =>
                   /\ \E i \in (k + 1)..Len(trace) :
                          trace[i].op = "invalidateEntireInstructionCache"
                   /\ \E j \in (k + 1)..Len(trace) :
                          trace[j].op = "flushEntireDataCache"
        /\ \A c \in 1..Len(trace) :
               trace[c].op \in {"invalidateEntireInstructionCache", "flushEntireDataCache"} =>
                   \E k \in 1..(c - 1) :
                       trace[k].op = "KProcessHwInfo__UnmapProcessMemory"

\* a failed page-table unmap was followed by both cache operations
C8_Witness ==
    /\ UnmapExDone
    /\ ret.res # 0
    /\ \E k \in 1..Len(trace) : trace[k].op = "KProcessHwInfo__UnmapProcessMemory"
    /\ \E k \in 1..Len(trace) : trace[k].op = "flushEntireDataCache"

----------------------------------------------------------------------------
(* Claims about the err:f service *)

\* ERRF_HandleCommands has returned from the request recorded in ret
Handled == ret.fn = "ERRF_HandleCommands"

HandleStep == errPc = "handle" /\ errPc' # "handle"

MalformedKinds == {"SetUserString_noBuffer", "SetUserString_handle"}

\* C9 as stated: after a well-formed SetUserString request of declared length
\* L, the stored user string is the first min(L, 256) bytes of the caller's
\* string followed by a NUL byte, and the reply status is 0
C9_AsStated ==
    (Handled /\ ret.req.kind = "SetUserString")
        => LET n == Smallest(ret.req.len, \H100)
               string == CallerString(ret.req.pat, ret.req.len)
           IN  /\ \A i \in 0..(n - 1) : At(userString, i) = string[i + 1]
               /\ At(userString, n) = 0
               /\ At(cmdbuf, 1) = 0

\* C10: a SetUserString request with the wrong parameter counts or with a
\* descriptor that is not a static buffer descriptor of index 0 leaves the
\* stored user string as it was and is answered with header
\* IPC_MakeHeader(0, 1, 0) and status 0xD9001830; the server does not panic,
\* keeps the session and replies to it, and a well-formed request that
\* follows on the session takes the storing branch and is answered with
\* status 0
C10_MalformedRejected ==
    [][/\ (HandleStep /\ ret.req.kind \in MalformedKinds)
            => /\ userString' = userString
               /\ At(cmdbuf', 0) = IPC_MakeHeader(0, 1, 0)
               /\ At(cmdbuf', 1) = InvalidCommand
               /\ errPc' # "panic"
               /\ ~preTerminationRequested => errPc' = "wait"
               /\ sessionHandle # 0
               /\ sessionHandle' = sessionHandle
               /\ replyTarget' = sessionHandle
       /\ (HandleStep /\ ret.after = "rejected" /\ ret.req.kind = "SetUserString")
            => /\ ret'.branch = "stored"
               /\ At(cmdbuf', 0) = IPC_MakeHeader(2, 1, 0)
               /\ At(cmdbuf', 1) = 0
               /\ At(userString', Smallest(ret.req.len, \H100)) = 0]_vars

\* a malformed request of declared length 300 was rejected on a session whose
\* previous request had stored a user string
C10_Witness ==
    /\ Handled
    /\ ret.req.kind \in MalformedKinds
    /\ ret.req.len = 300
    /\ ret.branch = "rejected"
    /\ ret.after = "stored"
    /\ userString # <<>>
    /\ At(cmdbuf, 1) = InvalidCommand

----------------------------------------------------------------------------
(* Claims about the err:f server loop *)

\* the calls of trace whose op is op
Calls(tr, op) == Only(tr, {op})

\* a step of the error-display thread, not of the main thread
ThreadStep == preTerminationRequested' = preTerminationRequested

\* an iteration of the loop: svcReplyAndReceive was called
LoopStep == errPc = "wait" /\ ThreadStep

\* the iteration took the 0xC920181A branch
ClosedStep ==
    /\ LoopStep
    /\ \E i \in DOMAIN trace' :
           trace'[i].op = "svcCloseHandle" /\ trace'[i].tag = "sessionHandle"

\* the iteration took the index 1 branch and svcAcceptSession succeeded
AcceptStep ==
    /\ LoopStep
    /\ Calls(trace', "svcAcceptSession") # <<>>
    /\ Calls(trace', "svcBreak") = <<>>

\* C11: when svcReplyAndReceive fails with 0xC920181A the server closes the
\* session handle it held and has no session and no reply target afterwards;
\* it does not panic and goes on waiting unless termination was requested;
\* the port handle made by the one svcCreatePort at start-up never changes,
\* every svcReplyAndReceive waits on it and every svcAcceptSession accepts
\* from it; a connection accepted while there is no session becomes the
\* session and is not closed
C11_SessionRecycled ==
    [][/\ ClosedStep
            => /\ Calls(trace', "svcCloseHandle")
                     = <<Ev("svcCloseHandle", "sessionHandle", sessionHandle)>>
               /\ sessionHandle # 0
               /\ sessionHandle' = 0
               /\ replyTarget' = 0
               /\ errPc' # "panic"
               /\ ~preTerminationRequested => errPc' = "wait"
       /\ errPc # "start"
            => serverHandle' = serverHandle
       /\ (errPc # "start" /\ ThreadStep)
            => /\ serverHandle = PortHandle
               /\ Calls(trace', "svcCreatePort") = <<>>
       /\ LoopStep
            => Ev("svcReplyAndReceive", "handles", PortHandle)
                   \in {trace'[i] : i \in DOMAIN trace'}
       /\ (AcceptStep /\ sessionHandle = 0)
            => /\ Calls(trace', "svcAcceptSession")
                     = <<Ev("svcAcceptSession", "serverHandle", PortHandle)>>
               /\ sessionHandle' \in SessionValues
               /\ Calls(trace', "svcCloseHandle") = <<>>]_vars

\* after the session 0x10 was closed by the remote end, a connection was
\* accepted from the same port and is the session
C11_Witness ==
    /\ errPc = "wait"
    /\ ret = SessionClosed(\H10)
    /\ sessionHandle \in SessionValues
    /\ serverHandle = PortHandle
    /\ Calls(trace, "svcAcceptSession") # <<>>

\* the iteration accepted a connection while a session was active
DropStep == AcceptStep /\ sessionHandle # 0

\* the next svcReplyAndReceive serves the session: it replies to it only if
\* the session has a request that was not answered yet
Servable == sessionHandle # 0 /\ (replyTarget # 0 => pending)

\* C12 as stated: a connection that arrives while a session is active is
\* accepted and closed at once, the active session's handle is unchanged and
\* the session can be served afterwards as it could before
C12_AsStated ==
    [][DropStep
         => /\ Calls(trace', "svcCloseHandle")
                  = <<Ev("svcCloseHandle", "session", svcAcceptSession_session)>>
            /\ sessionHandle' = sessionHandle
            /\ Servable => Servable']_vars

\* the results with which svcReplyAndReceive failed in the calls of tr
FailedWith(tr) ==
    {tr[i].n : i \in {j \in DOMAIN tr : tr[j].op = "svcReplyAndReceive" /\ tr[j].tag = "res"}}

\* the iteration in which svcReplyAndReceive failed
FailedStep == LoopStep /\ FailedWith(trace') # {}

\* C13: when svcReplyAndReceive fails with 0xC920181A the loop does not
\* panic: it closes the session handle, sets sessionHandle and replyTarget to
\* 0 and changes nothing else of the server; when it fails with any other
\* result, and when svcCreatePort fails, the thread calls
\* svcBreak(USERBREAK_PANIC); after the panic the thread takes no further step
C13_OnlyClosedSessionSurvives ==
    [][/\ (FailedStep /\ FailedWith(trace') = {SessionClosedByRemote})
            => /\ Calls(trace', "svcBreak") = <<>>
               /\ errPc' # "panic"
               /\ Calls(trace', "svcCloseHandle")
                     = <<Ev("svcCloseHandle", "sessionHandle", sessionHandle)>>
               /\ sessionHandle' = 0
               /\ replyTarget' = 0
               /\ UNCHANGED <<serverHandle, sbuf, staticBuf, userString, menuVars>>
       /\ (FailedStep /\ FailedWith(trace') # {SessionClosedByRemote})
            => /\ Calls(trace', "svcBreak") = <<Ev("svcBreak", "USERBREAK_PANIC", 0)>>
               /\ errPc' = "panic"
       /\ (errPc = "start" /\ Ev("svcCreatePort", "created", 0)
                                  \in {trace'[i] : i \in DOMAIN trace'})
            => /\ Calls(trace', "svcBreak") = <<Ev("svcBreak", "USERBREAK_PANIC", 0)>>
               /\ errPc' = "panic"
       /\ errPc = "panic" => UNCHANGED vars]_vars

\* the server panicked on the failing result 0xC920181B while it had a session
C13_Witness ==
    /\ errPc = "panic"
    /\ sessionHandle # 0
    /\ FailedWith(trace) = {SessionClosedByRemote + 1}

----------------------------------------------------------------------------
(* Claims about the Throw handler *)

\* waitInput returns to the Throw handler
WaitInputReturns == errPc = "waitInput" /\ errPc' # "waitInput"

\* C14 as stated: whenever the error display of a Throw request was shown,
\* waitInput returns, the display is left and the reply is prepared only
\* with a key press observed
C14_AsStated ==
    [][WaitInputReturns
         => Calls(trace', "waitInput") = <<Ev("waitInput", "keys", 1)>>]_vars


\* the Throw request whose error display is shown
Displayed == errPc = "waitInput"

\* the 0x60 bytes a caller put in the failure message of a request
CallerMessage(req) ==
    [k \in 1..\H60 |-> ByteOf(RequestWords(req)[10 + ((k - 1) \div 4)], (k - 1) % 4)]

\* the offsets below 95 where a message holds a NUL
NulOffsets(mesg) == {k \in 0..94 : mesg[k + 1] = 0}

\* a message up to its first NUL or up to offset 95, whichever comes first
CutAt95(mesg) ==
    SubSeq(mesg, 1, IF NulOffsets(mesg) = {} THEN 95
                    ELSE CHOOSE k \in NulOffsets(mesg) :
                             \A j \in NulOffsets(mesg) : k <= j)

\* C15: while the display of a Throw of type FAILURE is shown, the
\* description rendered by ERRF_FormatError is the caller's failure message
\* up to its first NUL or up to offset 95, whichever comes first
C15_MessageCutAt95 ==
    Displayed /\ RequestWords(ret.req)[2] = ERRF_ERRTYPE_FAILURE
        => ret.out.desc = CutAt95(CallerMessage(ret.req))

\* a message without any NUL is shown with its first 95 bytes
C15_Witness ==
    /\ Displayed
    /\ ret.req.kind = "Throw_failure"
    /\ ret.req.mesgLen = \H60
    /\ Len(ret.out.desc) = 95

\* the registers of the dump, in the order of the claim
DumpedRegisters ==
    <<"r0", "r1", "r2", "r3", "r4", "r5", "r6", "r7", "r8", "r9", "r10", "r11", "r12",
      "sp", "lr", "pc", "cpsr">>

\* the positions of a dump where a register is shown
ShownAt(dump, name) == {k \in 1..Len(dump) : dump[k].name = name}

\* C16: while the display of a Throw of type EXCEPTION is shown, the dump
\* written by ERRF_FormatError shows each of the 17 registers exactly once,
\* register i with the value at index i of the caller's register array
C16_RegisterDump ==
    Displayed /\ RequestWords(ret.req)[2] = ERRF_ERRTYPE_EXCEPTION
        => \A i \in 0..16 :
               /\ Cardinality(ShownAt(ret.out.registers, DumpedRegisters[i + 1])) = 1
               /\ \A k \in ShownAt(ret.out.registers, DumpedRegisters[i + 1]) :
                      ret.out.registers[k].value = RequestWords(ret.req)[16 + i]

\* the dump of a VFP exception: the 17 registers and the three VFP registers
C16_Witness ==
    /\ Displayed
    /\ ret.req.kind = "Throw_exception"
    /\ ret.req.excepType = ERRF_EXCEPTION_VFP
    /\ Len(ret.out.registers) = 20
    /\ ret.out.registers[17] = [name |-> "cpsr", value |-> RegValue(16)]

----------------------------------------------------------------------------
(* Claims about the return path of a call *)

\* the step ends an execution of postprocessSvc
PostprocessDone == svcPc \in {"returned", "rescheduled"} /\ svcPc' = "user"

\* C19: every execution of postprocessSvc ends with its one call of
\* officialPostProcessSvc: the call is the last one made, no other call of it
\* is made, and none has been made while the thread is rescheduled, whether
\* or not the thread is marked for termination.
C19_OfficialStepLast ==
    [][/\ PostprocessDone =>
              /\ Len(Calls(trace', "officialPostProcessSvc")) = 1
              /\ trace'[Len(trace')].op = "officialPostProcessSvc"
       /\ svcPc' = "rescheduled" => Calls(trace', "officialPostProcessSvc") = <<>>]_vars

\* a thread that was rescheduled made the original step after that
C19_Witness ==
    /\ svcPc = "user"
    /\ ret.fn = "postprocessSvc"
    /\ ret.rescheduled
    /\ Len(trace) = 3
    /\ trace[2].op = "rosalinaRescheduleThread"
    /\ trace[3].op = "officialPostProcessSvc"

\* the step is an execution of signalSvcReturn
ReturnStep == svcPc = "signalSvcReturn" /\ svcPc' = "returned"

\* C20: an execution of signalSvcReturn for a process whose custom flags hold
\* both SignalOnMemLayoutChanges and MemLayoutChanged clears MemLayoutChanged,
\* leaves every other flag of every process and signals the process's
\* memory-layout event once; any other execution leaves the custom flags and
\* signals no such event, whatever the identifier of the call.
C20_LayoutChangeSignalled ==
    [][ReturnStep =>
          LET flags == customFlags[currentProcess]
          IN  IF "SignalOnMemLayoutChanges" \in flags /\ "MemLayoutChanged" \in flags
              THEN /\ customFlags'[currentProcess] = flags \ {"MemLayoutChanged"}
                   /\ \A p \in Procs \ {currentProcess} : customFlags'[p] = customFlags[p]
                   /\ Calls(trace', "SignalEvent")
                        = <<Ev("SignalEvent", "onMemoryLayoutChangeEvent", currentProcess)>>
                   /\ memLayoutEvents' = memLayoutEvents \cup {currentProcess}
              ELSE /\ customFlags' = customFlags
                   /\ Calls(trace', "SignalEvent") = <<>>
                   /\ memLayoutEvents' = memLayoutEvents]_vars

\* the return of a call other than the one that changed the layout cleared
\* the flag of a process that has all three flags and signalled its event
C20_Witness ==
    /\ svcPc = "returned"
    /\ signalSvcReturn_svcId(pageEnd) = \H103
    /\ customFlags[currentProcess] = {"SignalOnMemLayoutChanges", "SignalOnExit"}
    /\ currentProcess \in memLayoutEvents
    /\ Calls(trace, "SignalEvent") # <<>>

\* the step is an execution of signalSvcEntry
EntryStep == svcPc = "signalSvcEntry" /\ svcPc' = "svcHook"

\* the current process has a debugger whose configuration selects id
Selected(id) ==
    currentProcess \in debugged /\ shouldSignalSyscallDebugEvent(currentProcess, id)

WriteStep == svcPc = "signalSvcReturn_write" /\ svcPc' = "returned"

\* C22 as stated: the return hook holds the recursive lock from its read of
\* the custom flags to its write-back, so the write-back changes no flag
\* but MemLayoutChanged, whatever another thread of the process set in
\* between.
C22_AsStated ==
    [][WriteStep =>
          /\ customFlags'[currentProcess] \ {"MemLayoutChanged"}
                 = customFlags[currentProcess] \ {"MemLayoutChanged"}
          /\ customFlags' # customFlags =>
                 Calls(trace', "KRecursiveLock__Lock") # <<>>]_vars

----------------------------------------------------------------------------
(* Claims about the process-termination path *)

\* the step is an execution of svcHook for the identifier 0x03
ExitStep ==
    svcPc = "svcHook" /\ svcPc' = "signalSvcReturn" /\ svcHook_svcId(pageEnd) = \H03

\* the positions of tr whose op is in ops
Positions(tr, ops) == {k \in 1..Len(tr) : tr[k].op \in ops}

C24_PluginEventFirst ==
    [][ExitStep /\ "SignalOnExit" \in customFlags[currentProcess] =>
          /\ Positions(trace', {"PLG_SignalEvent"})
                 = IF plgStatus = "PLG_CFG_RUNNING" THEN {1} ELSE {}
          /\ plgEvents' = IF plgStatus = "PLG_CFG_RUNNING"
                          THEN plgEvents \cup {"PLG_CFG_EXIT_EVENT"} ELSE plgEvents
          /\ Positions(trace', {"KRecursiveLock__Lock"}) # {}
          /\ threadList' = svcHook_unlockThreads(threadList, currentProcess)]_vars

\* without a running plugin the scan still cleared a held bit and no event
\* was signalled
C24_Witness ==
    /\ svcPc = "signalSvcReturn"
    /\ ret.hookId = \H03
    /\ plgStatus # "PLG_CFG_RUNNING"
    /\ plgEvents = {}
    /\ Positions(trace, {"schedulingMask"}) # {}
    /\ Positions(trace, {"PLG_SignalEvent"}) = {}

\* C27: the termination path leaves the thread list's length, order and
\* owners, clears at most bit 0x20 of a schedulingMask and only for threads of
\* the current process, and leaves the lock as it found it; without
\* SignalOnExit it changes no schedulingMask, does not take the lock and
\* signals no plugin event.
C27_OnlyHeldBit ==
    [][ExitStep =>
          /\ Len(threadList') = Len(threadList)
          /\ \A i \in 1..Len(threadList) :
                 /\ threadList'[i].ownerProcess = threadList[i].ownerProcess
                 /\ AndNot8(threadList'[i].schedulingMask, \H20)
                        = AndNot8(threadList[i].schedulingMask, \H20)
                 /\ threadList[i].ownerProcess # currentProcess
                        => threadList'[i] = threadList[i]
                 /\ ~Held(threadList[i]) => threadList'[i] = threadList[i]
          /\ UNCHANGED <<customFlags, criticalSectionLock, memLayoutEvents, officialSVCs,
                         debugged, currentProcess>>
          /\ "SignalOnExit" \notin customFlags[currentProcess] =>
                 /\ threadList' = threadList
                 /\ plgEvents' = plgEvents
                 /\ trace' = <<>>]_vars

\* the termination call cleared the held bit of a thread of mask 0x21 and
\* left a held thread of another process
C27_Witness ==
    /\ svcPc = "signalSvcReturn"
    /\ ret.hookId = \H03
    /\ Positions(trace, {"schedulingMask"}) # {}
    /\ \E i, j \in 1..Len(threadList) :
           /\ threadList[i] = KThread(currentProcess, \H01)
           /\ threadList[j].ownerProcess # currentProcess
           /\ Held(threadList[j])

----------------------------------------------------------------------------
(* Claims about postprocessSvc and the fixed replacements *)

\* the step is postprocessSvc from its entry
PostprocessStep == svcPc = "returned" /\ ret'.fn = "postprocessSvc"

\* bits 0 and 2 of a diagnostic state
Bits0And2(state) == (state % 2) + 4 * ((state \div 4) % 2)

\* C25: postprocessSvc reschedules the current thread exactly when the thread
\* is not marked for termination and rosalinaThreadLockPredicate holds for
\* it; the predicate is asked with bits 0 and 2 of rosalinaState only, and a
\* thread marked for termination is never rescheduled.
C25_ReschedulesIff ==
    [][PostprocessStep =>
          /\ Positions(trace', {"rosalinaRescheduleThread"}) # {}
                 <=> ~ret'.shallTerminate /\ ret'.locked
          /\ svcPc' = "rescheduled"
                 <=> Positions(trace', {"rosalinaRescheduleThread"}) # {}
          /\ \A k \in Positions(trace', {"rosalinaThreadLockPredicate"}) :
                 trace'[k].n = Bits0And2(ret'.rosalinaState)
          /\ ret'.shallTerminate =>
                 Positions(trace', {"rosalinaRescheduleThread"}) = {}]_vars

\* a thread was rescheduled under the state 7, the predicate asked with 5
C25_Witness ==
    /\ svcPc = "rescheduled"
    /\ ret.rosalinaState = 7
    /\ ~ret.shallTerminate
    /\ trace = <<Ev("rosalinaThreadLockPredicate", "mask", 5),
                 Ev("rosalinaRescheduleThread", "lock", 1)>>

\* the replacement svcHook has for an identifier, by the name of the function
ReplacementNames ==
    [id \in ((ReplacedIds \ {\H3C}) \cup ExtendedIds) |->
        CASE id = \H01 -> "ControlMemoryHookWrapper"
          [] id = \H29 -> "GetHandleInfoHookWrapper"
          [] id = \H2A -> "GetSystemInfoHookWrapper"
          [] id = \H2B -> "GetProcessInfoHookWrapper"
          [] id = \H2C -> "GetThreadInfoHookWrapper"
          [] id = \H2D -> "ConnectToPortHookWrapper"
          [] id = \H2E -> "GetCFWInfo"
          [] id = \H32 -> "SendSyncRequestHook"
          [] id = \H59 -> "SetGpuProt"
          [] id = \H5A -> "SetWifiEnabled"
          [] id = \H7B -> "Backdoor"
          [] id = \H7C -> "KernelSetStateHook"
          [] id = \H80 -> "CustomBackdoor"
          [] id = \H90 -> "convertVAToPA"
          [] id = \H91 -> "flushDataCacheRange"
          [] id = \H92 -> "flushEntireDataCache"
          [] id = \H93 -> "invalidateInstructionCacheRange"
          [] id = \H94 -> "invalidateEntireInstructionCache"
          [] id = \HA0 -> "MapProcessMemoryExWrapper"
          [] id = \HA1 -> "UnmapProcessMemoryEx"
          [] id = \HA2 -> "ControlMemoryEx"
          [] id = \HA3 -> "ControlMemoryUnsafeWrapper"
          [] id = \HB0 -> "ControlService"
          [] id = \HB1 -> "CopyHandleWrapper"
          [] id = \HB2 -> "TranslateHandleWrapper"
          [] id = \HB3 -> "ControlProcess"]

\* C26: for each of 0x01, 0x29..0x2E, 0x32, 0x59, 0x5A, 0x7B, 0x7C, 0x80,
\* 0x90..0x94, 0xA0..0xA3 and 0xB0..0xB3 svcHook returns the one replacement
\* of that identifier in every state, and NULL for every other identifier
\* above 0x7D.
C26_FixedReplacements ==
    Resolved =>
        /\ ret.hookId \in DOMAIN ReplacementNames
               => ret.handler = Hook(ReplacementNames[ret.hookId])
        /\ ~ULe(ret.hookId, \H7D) /\ ret.hookId \notin ExtendedIds
               => ret.handler = NULL

\* the backdoor call of a debugged process with SignalOnExit on the second
\* kernel image was given the replacement
C26_Witness ==
    /\ Resolved
    /\ ret.hookId = \H7B
    /\ currentProcess \in debugged
    /\ "SignalOnExit" \in customFlags[currentProcess]
    /\ officialSVCs[\H7B] = Official("kernelB", \H7B)
    /\ ret.handler = Hook("Backdoor")

----------------------------------------------------------------------------
(* Claims about replies and the menu reference count *)

\* C28 as stated: every call of svcReplyAndReceive with a non-zero
\* replyTarget is made while the session has a request that was received and
\* not answered yet, so that no reply is sent without a pending request and
\* no request is answered twice.
C28_AsStated ==
    [][LoopStep /\ replyTarget # 0 => pending /\ replyTarget = sessionHandle]_vars

\* the error-display thread is between its menuEnter and its menuLeave
ErrInside == errPc = "waitInput"

\* the menu thread is between its menuEnter and its menuLeave
MenuInside == menuPc = "menuShow"

\* C29 as stated: menuRefCount is never negative, and it is 0 whenever
\* neither the menu thread nor the error-display thread is between a
\* menuEnter and its menuLeave.
C29_AsStated ==
    /\ menuRefCount >= 0
    /\ ~ErrInside /\ ~MenuInside => menuRefCount = 0

\* a thread leaves the menu and its menuLeave does the restore: --menuRefCount
\* is 0
RestoreStep ==
    /\ \/ ErrInside /\ ~ErrInside'
       \/ MenuInside /\ ~MenuInside'
    /\ menuRefCount' = 0

\* C30 as stated: a menuLeave restores the framebuffer, frees the cache and
\* unfreezes only when no other thread is still between its menuEnter and its
\* menuLeave.
C30_AsStated ==
    [][RestoreStep => ~ErrInside' /\ ~MenuInside']_vars

----------------------------------------------------------------------------
(* Claims about ntpGetTimeStamp *)

\* the step is a call of ntpGetTimeStamp
NtpStep == svcPc = "user" /\ svcPc' = "ntpReturned"

\* the values with which op was called or returned in tr
Values(tr, op) == {tr[k].n : k \in Positions(tr, {op})}

\* C31 as stated: in a call of ntpGetTimeStamp a successful miniSocInit is
\* followed by exactly one miniSocExit and a created socket by exactly one
\* socClose of it, on every return path; when socConnect, socSend or socRecv
\* fails the call returns a failure and leaves *outTimestamp as it was.
C31_AsStated ==
    [][NtpStep =>
          /\ Values(trace', "miniSocInit") = {0}
                 => Cardinality(Positions(trace', {"miniSocExit"})) = 1
          /\ \A sock \in Values(trace', "socSocket") :
                 sock >= 0 =>
                     /\ Cardinality(Positions(trace', {"socClose"})) = 1
                     /\ Values(trace', "socClose") = {sock}
          /\ (\E op \in {"socConnect", "socSend", "socRecv"} :
                 \E v \in Values(trace', op) : v < 0)
                 => ret'.res < 0 /\ ret'.outTimestamp = ret'.before]_vars

=============================================================================
